---- MODULE Spec2Model ----
(***************************************************************************)
(* Inventory availability snapshot pipeline: the POST handler of           *)
(* src/app/api/snapshot/inventory/route.ts (its latest revision, lines     *)
(* 307-709), run by any number of requests against one spreadsheet, one    *)
(* commerce platform and one clock.                                        *)
(*                                                                         *)
(* Text is a sequence of one-character strings, so that trim, upper-casing *)
(* and header normalisation are computed and not assumed.                  *)
(***************************************************************************)
EXTENDS Integers, Sequences, FiniteSets, TLC

\* ------------------------------------------------------------------ bounds

\* Requests in one behaviour, numbered in order of arrival.
NumRuns == 2

\* The clock runs over the instants 0..MaxNow; the calendar day changes at
\* the instant Midnight.
MaxNow == 2

Midnight == 2

\* At most this many settings of the environment are absent or empty.
MaxMissing == 1

\* ------------------------------------------------------------------- text

Undefined == "<undefined>"

Null == "<null>"

\* row?.[idx] outside the row, and a cell that was never set.
UndefinedCell == <<"<undefined>">>

Whitespace == {" ", "\t"}

LowerChars == <<"a","b","c","d","e","f","g","h","i","j","k","l","m",
                "n","o","p","q","r","s","t","u","v","w","x","y","z">>

UpperChars == <<"A","B","C","D","E","F","G","H","I","J","K","L","M",
                "N","O","P","Q","R","S","T","U","V","W","X","Y","Z">>

DigitChars == <<"0","1","2","3","4","5","6","7","8","9">>

\* The characters of a table, each with its position in it.
PositionIn(chars) ==
  [c \in { chars[i] : i \in DOMAIN chars } |->
     CHOOSE i \in DOMAIN chars : chars[i] = c]

LowerPosition == PositionIn(LowerChars)

UpperPosition == PositionIn(UpperChars)

DigitPosition == PositionIn(DigitChars)

UpperChar(c) ==
  IF c \in DOMAIN LowerPosition THEN UpperChars[LowerPosition[c]] ELSE c

LowerChar(c) ==
  IF c \in DOMAIN UpperPosition THEN LowerChars[UpperPosition[c]] ELSE c

ToUpperCase(s) == [i \in DOMAIN s |-> UpperChar(s[i])]

ToLowerCase(s) == [i \in DOMAIN s |-> LowerChar(s[i])]

RECURSIVE TrimStart(_)
TrimStart(s) ==
  IF s # <<>> /\ Head(s) \in Whitespace THEN TrimStart(Tail(s)) ELSE s

RECURSIVE TrimEnd(_)
TrimEnd(s) ==
  IF s # <<>> /\ s[Len(s)] \in Whitespace
  THEN TrimEnd(SubSeq(s, 1, Len(s) - 1))
  ELSE s

Trim(s) == TrimEnd(TrimStart(s))

\* (x || "").toString(): undefined and the empty text both give "".
OrEmpty(x) == IF x = UndefinedCell THEN <<>> ELSE x

\* .replace(/\s+/g, "_")
RECURSIVE CollapseWhitespace(_)
CollapseWhitespace(s) ==
  IF s = <<>> THEN <<>>
  ELSE IF Head(s) \in Whitespace
       THEN <<"_">> \o CollapseWhitespace(TrimStart(s))
       ELSE <<Head(s)>> \o CollapseWhitespace(Tail(s))

IsHeaderChar(c) ==
  \/ c \in DOMAIN LowerPosition
  \/ c \in DOMAIN DigitPosition
  \/ c = "_"

normalizeHeader(h) ==
  SelectSeq(CollapseWhitespace(ToLowerCase(Trim(OrEmpty(h)))), IsHeaderChar)

\* Number(text): white space trimmed, "" is 0, an optional sign and decimal
\* digits; anything else is NaN.
IsDigits(s) == s # <<>> /\ \A i \in DOMAIN s : s[i] \in DOMAIN DigitPosition

RECURSIVE DigitsValue(_)
DigitsValue(s) ==
  IF s = <<>> THEN 0
  ELSE 10 * DigitsValue(SubSeq(s, 1, Len(s) - 1))
       + (DigitPosition[s[Len(s)]] - 1)

NumberOf(x) ==
  LET t == Trim(x) IN
  IF t = <<>> THEN [nan |-> FALSE, val |-> 0]
  ELSE IF IsDigits(t) THEN [nan |-> FALSE, val |-> DigitsValue(t)]
  ELSE IF Head(t) = "-" /\ IsDigits(Tail(t))
       THEN [nan |-> FALSE, val |-> 0 - DigitsValue(Tail(t))]
  ELSE IF Head(t) = "+" /\ IsDigits(Tail(t))
       THEN [nan |-> FALSE, val |-> DigitsValue(Tail(t))]
  ELSE [nan |-> TRUE, val |-> 0]

\* Number(safetyStockRaw || 0) || 0
ParseSafetyStock(raw) ==
  IF raw = UndefinedCell \/ raw = <<>> THEN 0
  ELSE IF NumberOf(raw).nan THEN 0 ELSE NumberOf(raw).val

\* ------------------------------------------------------ program constants

\* Fallback column indexes (0-based), used when no header names the field.
FALLBACK == [colorway |-> 3, size |-> 4, class |-> 12, safety |-> 14, sku |-> 17]

\* The header names getByHeader is asked for.
KeySku == <<"s","k","u">>

KeyColorway == <<"c","o","l","o","r","w","a","y">>

KeySize == <<"s","i","z","e">>

KeyClass == <<"c","l","a","s","s">>

KeySafetyStock == <<"s","a","f","e","t","y","_","s","t","o","c","k">>

KeySafety == <<"s","a","f","e","t","y">>

\* The class weights of the first revision (line 214): A 2, B 1.
ClassWeightFirstRevision(classValue) ==
  CASE classValue = <<"A">> -> 2
    [] classValue = <<"B">> -> 1
    [] OTHER -> 0

PRODUCT_CLASS_WEIGHT(classValue) ==
  CASE classValue = <<"A">> -> 4
    [] classValue = <<"B">> -> 3
    [] classValue = <<"C">> -> 2
    [] classValue = <<"L","E">> -> 1
    [] OTHER -> 0

SIZE_CLASS_WEIGHT(sizeClass) ==
  CASE sizeClass = "A" -> 3
    [] sizeClass = "B" -> 1
    [] OTHER -> 0

SIZE_CLASS_A_SET ==
  { <<"Y","T","H","-","M","D">>, <<"Y","T","H","-","L","G">>,
    <<"Y","T","H","-","X","L">>, <<"S","R","-","S","M">>,
    <<"S","R","-","M","D">>, <<"S","R","-","L","G">> }

\* A derivation that looks the size up as it is typed.
deriveSizeClassAsTyped(sizeRaw) ==
  IF OrEmpty(sizeRaw) \in SIZE_CLASS_A_SET THEN "A" ELSE "B"

deriveSizeClassFromSize(sizeRaw) ==
  LET size == ToUpperCase(Trim(OrEmpty(sizeRaw))) IN
  IF size \in SIZE_CLASS_A_SET THEN "A" ELSE "B"

\* errors.slice(0, 25)
ErrorCap == 25

\* -------------------------------------------------------- reference table

\* row?.[idx], idx 0-based.
CellAt(row, idx) ==
  IF idx + 1 \in DOMAIN row THEN row[idx + 1] ELSE UndefinedCell

\* buildHeaderIndexMap: the normalised headers that occur, and for each the
\* index of its last occurrence (map[key] = i overwrites).
HeaderKeys(headerRow) ==
  { normalizeHeader(headerRow[i]) : i \in DOMAIN headerRow } \ { <<>> }

buildHeaderIndexMap(headerRow) ==
  [ k \in HeaderKeys(headerRow) |->
      (CHOOSE i \in DOMAIN headerRow :
         /\ normalizeHeader(headerRow[i]) = k
         /\ \A j \in DOMAIN headerRow :
              normalizeHeader(headerRow[j]) = k => j <= i) - 1 ]

\* A lookup that tries the first name only, then the fallback index.
getByHeaderFirstKeyOnly(row, headerMap, keys, fallbackIndex) ==
  IF keys # <<>> /\ Head(keys) \in DOMAIN headerMap
  THEN CellAt(row, headerMap[Head(keys)])
  ELSE CellAt(row, fallbackIndex)

\* getByHeader: the first key the header map knows, then the fallback index.
RECURSIVE getByHeader(_, _, _, _)
getByHeader(row, headerMap, keys, fallbackIndex) ==
  IF keys # <<>>
  THEN IF Head(keys) \in DOMAIN headerMap
       THEN CellAt(row, headerMap[Head(keys)])
       ELSE getByHeader(row, headerMap, Tail(keys), fallbackIndex)
  ELSE CellAt(row, fallbackIndex)

\* The fields the loop reads from one data row (lines 579-613).
RowSku(r, headerMap) ==
  Trim(OrEmpty(getByHeader(r, headerMap, <<KeySku>>, FALLBACK.sku)))

\* The fields as the earlier revision read them (line 206): the class trimmed
\* but not upper-cased.
RowFieldsClassAsTyped(r, headerMap) ==
  LET colorway == Trim(OrEmpty(getByHeader(r, headerMap, <<KeyColorway>>, FALLBACK.colorway)))
      size == Trim(OrEmpty(getByHeader(r, headerMap, <<KeySize>>, FALLBACK.size)))
      classValue == Trim(OrEmpty(getByHeader(r, headerMap, <<KeyClass>>, FALLBACK.class)))
      safetyStockRaw == getByHeader(r, headerMap, <<KeySafetyStock, KeySafety>>, FALLBACK.safety)
      sizeClass == deriveSizeClassFromSize(size)
      productClassWeight == PRODUCT_CLASS_WEIGHT(classValue)
      sizeClassWeight == SIZE_CLASS_WEIGHT(sizeClass)
  IN [ sku |-> RowSku(r, headerMap),
       colorway |-> colorway,
       size |-> size,
       classValue |-> classValue,
       safetyStock |-> ParseSafetyStock(safetyStockRaw),
       sizeClass |-> sizeClass,
       productClassWeight |-> productClassWeight,
       sizeClassWeight |-> sizeClassWeight,
       totalWeight |-> productClassWeight * sizeClassWeight ]

RowFields(r, headerMap) ==
  LET colorway == Trim(OrEmpty(getByHeader(r, headerMap, <<KeyColorway>>, FALLBACK.colorway)))
      size == Trim(OrEmpty(getByHeader(r, headerMap, <<KeySize>>, FALLBACK.size)))
      classValue == ToUpperCase(Trim(OrEmpty(getByHeader(r, headerMap, <<KeyClass>>, FALLBACK.class))))
      safetyStockRaw == getByHeader(r, headerMap, <<KeySafetyStock, KeySafety>>, FALLBACK.safety)
      sizeClass == deriveSizeClassFromSize(size)
      productClassWeight == PRODUCT_CLASS_WEIGHT(classValue)
      sizeClassWeight == SIZE_CLASS_WEIGHT(sizeClass)
  IN [ sku |-> RowSku(r, headerMap),
       colorway |-> colorway,
       size |-> size,
       classValue |-> classValue,
       safetyStock |-> ParseSafetyStock(safetyStockRaw),
       sizeClass |-> sizeClass,
       productClassWeight |-> productClassWeight,
       sizeClassWeight |-> sizeClassWeight,
       totalWeight |-> productClassWeight * sizeClassWeight ]

\* ------------------------------------------------------------------ clock

\* getETDate(): the calendar day of an instant.
getETDate(t) == IF t < Midnight THEN 0 ELSE 1

\* getETTimestamp(): day and time of an instant.
getETTimestamp(t) == <<getETDate(t), t>>

\* `${snapshotDate}-${Date.now()}`
MakeRunId(snapshotDate, t) == <<snapshotDate, t>>

\* ------------------------------------------------------------------ state

VARIABLES
  env,      \* process.env: setting name -> text, or Undefined
  summary,  \* the values of Summary!A1:Z: rows of cells, the header row first
  shop,     \* the commerce platform: its variants and inventory levels
  sheet,    \* the rows of the inventory_snapshots sheet, oldest first
  now,      \* the clock
  run,      \* per request: the handler's position, locals and response
  page      \* the dashboard page: its React state and its timers

vars == <<env, summary, shop, sheet, now, run, page>>

Runs == 1..NumRuns

\* requireEnv is called on these, in this order (lines 505-515).
RequiredEnv == << "GOOGLE_SHEET_ID", "GOOGLE_CLIENT_EMAIL", "GOOGLE_PRIVATE_KEY",
                  "SHOPIFY_STORE_DOMAIN", "SHOPIFY_ADMIN_TOKEN",
                  "SHOPIFY_API_VERSION", "SHOPIFY_LOCATION_ID" >>

EnvNames == { RequiredEnv[i] : i \in DOMAIN RequiredEnv } \cup { "CRON_SECRET" }

\* The value a setting has when it is configured.
Configured(name) ==
  CASE name = "CRON_SECRET" -> "s3cret"
    [] name = "SHOPIFY_LOCATION_ID" -> "1"
    [] OTHER -> "set"

\* !v
Falsy(v) == v = Undefined \/ v = Null \/ v = ""

\* A handler that does not require SHOPIFY_LOCATION_ID.
FirstMissingButLocation(e) ==
  IF \E i \in 1..6 : Falsy(e[RequiredEnv[i]])
  THEN RequiredEnv[CHOOSE i \in 1..6 :
         /\ Falsy(e[RequiredEnv[i]])
         /\ \A j \in 1..(i - 1) : ~Falsy(e[RequiredEnv[j]])]
  ELSE ""

\* requireEnv over the seven settings: the first one missing, or "" if none.
FirstMissing(e) ==
  IF \E i \in DOMAIN RequiredEnv : Falsy(e[RequiredEnv[i]])
  THEN RequiredEnv[CHOOSE i \in DOMAIN RequiredEnv :
         /\ Falsy(e[RequiredEnv[i]])
         /\ \A j \in 1..(i - 1) : ~Falsy(e[RequiredEnv[j]])]
  ELSE ""

\* ------------------------------------------------------ commerce platform

UndefinedGid == <<"<undefined>">>

\* gid.split("/").pop()
GidTail(gid) == gid[Len(gid)]

\* `!gid`: undefined or the empty text.
NoGid(gid) == gid = UndefinedGid \/ gid = <<"">>

NotFound == [found |-> FALSE, variantId |-> "", inventoryItemId |-> ""]

\* fetchVariantBySkuGraphQL on a successful response: productVariants(first: 1,
\* query: sku:"..."), the first edge's node, null unless it has both ids.
VariantOfResponse(sh, sku) ==
  LET hits == SelectSeq(sh.variants, LAMBDA v : v.sku = sku) IN
  IF hits = <<>> THEN NotFound
  ELSE IF NoGid(hits[1].id) \/ NoGid(hits[1].inventoryItem) THEN NotFound
  ELSE [found |-> TRUE,
        variantId |-> GidTail(hits[1].id),
        inventoryItemId |-> GidTail(hits[1].inventoryItem)]

\* A lookup that reads the levels whatever the response's status.
fetchAvailableIgnoresStatus(sh, ok, inventoryItemId, locationId) ==
  LET levels == SelectSeq(sh.levels,
                  LAMBDA l : l.inventory_item_id = inventoryItemId)
  IN IF levels = <<>> THEN 0
     ELSE IF levels[1].available.isNumber THEN levels[1].available.val
     ELSE 0

\* String(n) of the location ids the platform reports (single digits here).
StringOfId(n) == DigitChars[n + 1]

\* fetchAvailableInventoryREST: 0 on a non-successful response; else the first
\* level of the response at the location, its `available` if that is a number.
fetchAvailableInventoryREST(sh, ok, inventoryItemId, locationId) ==
  IF ~ok THEN 0
  ELSE LET levels == SelectSeq(sh.levels,
                       LAMBDA l : l.inventory_item_id = inventoryItemId)
           atLoc == SelectSeq(levels,
                       LAMBDA l : StringOfId(l.location_id) = locationId)
       IN IF atLoc = <<>> THEN 0
          ELSE IF atLoc[1].available.isNumber THEN atLoc[1].available.val
          ELSE 0

\* The variants of the catalog with a non-empty SKU.
CatalogSkus(sh) ==
  { sh.variants[i].sku : i \in DOMAIN sh.variants } \ { <<>> }

\* ---------------------------------------------------------------- handler

NoResponse ==
  [http |-> 0, status |-> "none", error |-> "", message |-> "",
   snapshotDate |-> -1, rowsInserted |-> 0, errorsCount |-> 0, errors |-> <<>>]

IdleRun ==
  [pc |-> "idle", method |-> Null, secret |-> Null,
   snapshotDate |-> -1, snapshotTs |-> <<-1, -1>>, runId |-> <<-1, -1>>,
   dateCol |-> <<>>, headerMap |-> <<>>, i |-> 0, variantInfo |-> NotFound,
   snapshotRows |-> <<>>, errors |-> <<>>,
   resp |-> NoResponse, ops |-> <<>>]

\* An external call as it is issued; its outcome is filled in when it returns.
Call(op, arg) == [op |-> op, arg |-> arg, res |-> "pending"]

Issue(s, op, arg) == [s EXCEPT !.ops = Append(@, Call(op, arg))]

Returned(s, ok) ==
  [s EXCEPT !.ops[Len(s.ops)].res = IF ok THEN "ok" ELSE "failed"]

\* status 401, { error: "Unauthorized" } (line 501)
Unauthorized(s) ==
  [s EXCEPT !.pc = "done",
            !.resp = [NoResponse EXCEPT !.http = 401, !.status = Undefined,
                                        !.error = "Unauthorized"]]

\* The catch block (lines 698-703), and the early return of lines 556-559.
Failed(s, message) ==
  [s EXCEPT !.pc = "done",
            !.resp = [NoResponse EXCEPT !.http = 500, !.status = "error",
                                        !.message = message]]

\* Lines 541-545.
Skipped(s) ==
  [s EXCEPT !.pc = "done",
            !.resp = [NoResponse EXCEPT !.http = 200, !.status = "skipped",
                                        !.snapshotDate = s.snapshotDate]]

\* An ok response that counts the errors it lists, not the errors there are.
SucceededCountsListed(s) ==
  LET listed == SubSeq(s.errors, 1,
                  IF Len(s.errors) < ErrorCap THEN Len(s.errors) ELSE ErrorCap)
  IN [s EXCEPT !.pc = "done",
               !.resp = [NoResponse EXCEPT
                           !.http = 200, !.status = "ok",
                           !.snapshotDate = s.snapshotDate,
                           !.rowsInserted = Len(s.snapshotRows),
                           !.errorsCount = Len(listed),
                           !.errors = listed]]

\* An ok response that returns the error list whole.
SucceededUncapped(s) ==
  [s EXCEPT !.pc = "done",
            !.resp = [NoResponse EXCEPT
                        !.http = 200, !.status = "ok",
                        !.snapshotDate = s.snapshotDate,
                        !.rowsInserted = Len(s.snapshotRows),
                        !.errorsCount = Len(s.errors),
                        !.errors = s.errors]]

\* Lines 691-697.
Succeeded(s) ==
  [s EXCEPT !.pc = "done",
            !.resp = [NoResponse EXCEPT
                        !.http = 200, !.status = "ok",
                        !.snapshotDate = s.snapshotDate,
                        !.rowsInserted = Len(s.snapshotRows),
                        !.errorsCount = Len(s.errors),
                        !.errors = SubSeq(s.errors, 1,
                                     IF Len(s.errors) < ErrorCap
                                     THEN Len(s.errors) ELSE ErrorCap)]]

\* all.slice(1)
DataRows(all) == Tail(all)

\* A loop that takes every data row, the rows without a SKU too.
NextRowAny(all, headerMap, j) ==
  IF j <= Len(DataRows(all)) THEN j ELSE 0

\* A loop over a table keyed by SKU, where the last occurrence of a SKU
\* replaces the earlier ones: the first data row at or after j whose SKU is
\* not empty and does not occur again below it, or 0.
NextSkuRowLastOccurrence(all, headerMap, j) ==
  LET rows == DataRows(all)
      cand == { k \in j..Len(rows) :
                  /\ RowSku(rows[k], headerMap) # <<>>
                  /\ \A m \in (k + 1)..Len(rows) :
                       RowSku(rows[m], headerMap) # RowSku(rows[k], headerMap) }
  IN IF cand = {} THEN 0 ELSE CHOOSE k \in cand : \A m \in cand : k <= m

\* The index of the first data row at or after j whose SKU is not empty, or 0.
NextSkuRow(all, headerMap, j) ==
  LET rows == DataRows(all)
      cand == { k \in j..Len(rows) : RowSku(rows[k], headerMap) # <<>> }
  IN IF cand = {} THEN 0 ELSE CHOOSE k \in cand : \A m \in cand : k <= m

\* A loop that issues the append past the last row whether or not it has
\* rows to write.
ContinueLoopAppendsAlways(s, all, j) ==
  LET k == NextSkuRow(all, s.headerMap, j) IN
  IF k # 0
  THEN Issue([s EXCEPT !.pc = "variant", !.i = k], "variant_lookup",
             RowSku(DataRows(all)[k], s.headerMap))
  ELSE Issue([s EXCEPT !.pc = "append"], "append", <<>>)

\* A loop that writes as soon as it has a row, not after the last row.
ContinueLoopWritesEarly(s, all, j) ==
  LET k == NextSkuRow(all, s.headerMap, j) IN
  IF s.snapshotRows # <<>>
  THEN Issue([s EXCEPT !.pc = "append"], "append", <<>>)
  ELSE IF k # 0
       THEN Issue([s EXCEPT !.pc = "variant", !.i = k], "variant_lookup",
                  RowSku(DataRows(all)[k], s.headerMap))
       ELSE Succeeded(s)

\* The for loop from data row j up to its next await: the variant lookup of
\* the next row with a SKU; past the last row, the append if there are rows
\* (line 682), else the ok response.
ContinueLoop(s, all, j) ==
  LET k == NextSkuRow(all, s.headerMap, j) IN
  IF k # 0
  THEN Issue([s EXCEPT !.pc = "variant", !.i = k], "variant_lookup",
             RowSku(DataRows(all)[k], s.headerMap))
  ELSE IF s.snapshotRows # <<>>
       THEN Issue([s EXCEPT !.pc = "append"], "append", <<>>)
       ELSE Succeeded(s)

\* A row that reads the clock when it is built, not at the start of the run.
SnapshotRowReadsClock(s, f, locationId, availableQty) ==
  LET balanceVsSafety == availableQty - f.safetyStock
      inStockBinary == IF f.safetyStock > 0
                       THEN availableQty >= f.safetyStock
                       ELSE availableQty > 0
      inStockFlag == IF inStockBinary THEN 1 ELSE 0
  IN [ snapshot_date_et |-> getETDate(now),
       snapshot_ts_et |-> getETTimestamp(now),
       run_id |-> MakeRunId(getETDate(now), now),
       sku |-> f.sku,
       colorway |-> f.colorway,
       size |-> f.size,
       class |-> f.classValue,
       size_class |-> f.sizeClass,
       safety_stock |-> f.safetyStock,
       shopify_variant_id |-> s.variantInfo.variantId,
       inventory_item_id |-> s.variantInfo.inventoryItemId,
       location_id |-> locationId,
       available_qty |-> availableQty,
       balance_vs_safety |-> balanceVsSafety,
       product_class_weight |-> f.productClassWeight,
       size_class_weight |-> f.sizeClassWeight,
       total_weight |-> f.totalWeight,
       in_stock_flag |-> inStockFlag,
       weighted_in_stock |-> inStockFlag * f.totalWeight ]

\* A row whose in-stock flag is the any-positive one: 1 whenever anything is
\* available, whatever the safety stock.
SnapshotRowAnyPositive(s, f, locationId, availableQty) ==
  LET balanceVsSafety == availableQty - f.safetyStock
      inStockFlag == IF availableQty > 0 THEN 1 ELSE 0
  IN [ snapshot_date_et |-> s.snapshotDate,
       snapshot_ts_et |-> s.snapshotTs,
       run_id |-> s.runId,
       sku |-> f.sku,
       colorway |-> f.colorway,
       size |-> f.size,
       class |-> f.classValue,
       size_class |-> f.sizeClass,
       safety_stock |-> f.safetyStock,
       shopify_variant_id |-> s.variantInfo.variantId,
       inventory_item_id |-> s.variantInfo.inventoryItemId,
       location_id |-> locationId,
       available_qty |-> availableQty,
       balance_vs_safety |-> balanceVsSafety,
       product_class_weight |-> f.productClassWeight,
       size_class_weight |-> f.sizeClassWeight,
       total_weight |-> f.totalWeight,
       in_stock_flag |-> inStockFlag,
       weighted_in_stock |-> inStockFlag * f.totalWeight ]

\* Lines 645-678: one row of the snapshot.
SnapshotRow(s, f, locationId, availableQty) ==
  LET balanceVsSafety == availableQty - f.safetyStock
      inStockBinary == IF f.safetyStock > 0
                       THEN availableQty >= f.safetyStock
                       ELSE availableQty > 0
      inStockFlag == IF inStockBinary THEN 1 ELSE 0
  IN [ snapshot_date_et |-> s.snapshotDate,
       snapshot_ts_et |-> s.snapshotTs,
       run_id |-> s.runId,
       sku |-> f.sku,
       colorway |-> f.colorway,
       size |-> f.size,
       class |-> f.classValue,
       size_class |-> f.sizeClass,
       safety_stock |-> f.safetyStock,
       shopify_variant_id |-> s.variantInfo.variantId,
       inventory_item_id |-> s.variantInfo.inventoryItemId,
       location_id |-> locationId,
       available_qty |-> availableQty,
       balance_vs_safety |-> balanceVsSafety,
       product_class_weight |-> f.productClassWeight,
       size_class_weight |-> f.sizeClassWeight,
       total_weight |-> f.totalWeight,
       in_stock_flag |-> inStockFlag,
       weighted_in_stock |-> inStockFlag * f.totalWeight ]

\* The check of the first GET handler: the header equals CRON_SECRET, with
\* no test that it is there.
AuthorizedIfEqual(secret, cronSecret) == secret = cronSecret

\* Line 500: the header is present, not empty, and equal to CRON_SECRET.
Authorized(secret, cronSecret) == ~Falsy(secret) /\ secret = cronSecret

\* A guard that takes the first row of column A for a header.
GuardHitPastFirstRow(dateCol, snapshotDate) ==
  \E k \in DOMAIN dateCol : k > 1 /\ dateCol[k] = snapshotDate

\* A guard that looks for the date of another time zone, a day ahead.
GuardHitOtherZone(dateCol, snapshotDate) ==
  \E k \in DOMAIN dateCol : dateCol[k] = snapshotDate + 1

\* Line 540: dateCol.includes(snapshotDate)
GuardHit(dateCol, snapshotDate) ==
  \E k \in DOMAIN dateCol : dateCol[k] = snapshotDate

\* Column A of the snapshot sheet, as the guard reads it.
DateColumn(sh) == [k \in DOMAIN sh |-> sh[k].snapshot_date_et]

\* The first revision of the lookup (line 75): null on a non-successful
\* response, as for a SKU that is not found.
fetchVariantReturnsNull(sh, ok, sku) ==
  IF ~ok THEN [threw |-> FALSE, info |-> NotFound]
  ELSE [threw |-> FALSE, info |-> VariantOfResponse(sh, sku)]

\* fetchVariantBySkuGraphQL (lines 406-461): throws on a non-successful
\* response, else the variant or null.
fetchVariantBySkuGraphQL(sh, ok, sku) ==
  IF ~ok THEN [threw |-> TRUE, info |-> NotFound]
  ELSE [threw |-> FALSE, info |-> VariantOfResponse(sh, sku)]

\* ---------------------------------------------------------------- actions

Headers == { Null, "", "wrong", "s3cret" }

\* A handler that requires its settings before it looks at the header.
BeginSettingsFirst(r) ==
  /\ run[r].pc = "idle"
  /\ \A q \in Runs : q < r => run[q].pc # "idle"
  /\ \E hdr \in Headers :
       LET s == [run[r] EXCEPT !.method = "POST", !.secret = hdr] IN
       run' = [run EXCEPT ![r] =
         IF FirstMissing(env) # "" THEN Failed(s, FirstMissing(env))
         ELSE IF ~Authorized(hdr, env["CRON_SECRET"]) THEN Unauthorized(s)
         ELSE Issue([s EXCEPT !.pc = "guard",
                              !.snapshotDate = getETDate(now),
                              !.snapshotTs = getETTimestamp(now),
                              !.runId = MakeRunId(getETDate(now), now)],
                    "guard_read", <<>>)]
  /\ UNCHANGED <<env, summary, shop, sheet, now, page>>

\* A request arrives (lines 496-537): the security check, the required
\* settings, the date, timestamp and run id (three reads of the clock within
\* one instant of its grain), and the guard read issued.
Begin(r) ==
  /\ run[r].pc = "idle"
  /\ \A q \in Runs : q < r => run[q].pc # "idle"
  /\ \E hdr \in Headers :
       LET s == [run[r] EXCEPT !.method = "POST", !.secret = hdr] IN
       run' = [run EXCEPT ![r] =
         IF ~Authorized(hdr, env["CRON_SECRET"]) THEN Unauthorized(s)
         ELSE IF FirstMissing(env) # "" THEN Failed(s, FirstMissing(env))
         ELSE Issue([s EXCEPT !.pc = "guard",
                              !.snapshotDate = getETDate(now),
                              !.snapshotTs = getETTimestamp(now),
                              !.runId = MakeRunId(getETDate(now), now)],
                    "guard_read", <<>>)]
  /\ UNCHANGED <<env, summary, shop, sheet, now, page>>

\* A guard whose skipped branch lacks its return: the response is built and
\* the handler goes on to the reference read.
AfterGuardFallsThrough(s, dateCol) ==
  LET t == [s EXCEPT !.dateCol = dateCol] IN
  Issue([t EXCEPT !.pc = "reference"], "reference_read", <<>>)

\* Lines 539-552, with column A in hand: return skipped if it holds the
\* date, else issue the reference read.
AfterGuard(s, dateCol) ==
  LET t == [s EXCEPT !.dateCol = dateCol] IN
  IF GuardHit(dateCol, s.snapshotDate) THEN Skipped(t)
  ELSE Issue([t EXCEPT !.pc = "reference"], "reference_read", <<>>)

\* The guard read returns (lines 534-552).
GuardRead(r) ==
  /\ run[r].pc = "guard"
  /\ \E ok \in BOOLEAN :
       LET s == Returned(run[r], ok) IN
       run' = [run EXCEPT ![r] =
         IF ~ok THEN Failed(s, "guard_read")
         ELSE AfterGuard(s, DateColumn(sheet))]
  /\ UNCHANGED <<env, summary, shop, sheet, now, page>>

\* A reference read that asks for one row only: the header alone is a table
\* to process.
ReferenceReadHeaderOnlyOk(r) ==
  /\ run[r].pc = "reference"
  /\ \E ok \in BOOLEAN :
       LET s == Returned(run[r], ok) IN
       run' = [run EXCEPT ![r] =
         IF ~ok THEN Failed(s, "reference_read")
         ELSE IF Len(summary) < 1
              THEN Failed(s, "Summary sheet has no rows to process")
              ELSE ContinueLoop(
                     [s EXCEPT !.headerMap = buildHeaderIndexMap(summary[1])],
                     summary, 1)]
  /\ UNCHANGED <<env, summary, shop, sheet, now, page>>

\* The reference read returns (lines 554-621): fewer than 2 rows is an error,
\* else the loop runs to its first variant lookup.
ReferenceRead(r) ==
  /\ run[r].pc = "reference"
  /\ \E ok \in BOOLEAN :
       LET s == Returned(run[r], ok) IN
       run' = [run EXCEPT ![r] =
         IF ~ok THEN Failed(s, "reference_read")
         ELSE IF Len(summary) < 2
              THEN Failed(s, "Summary sheet has no rows to process")
              ELSE ContinueLoop(
                     [s EXCEPT !.headerMap = buildHeaderIndexMap(summary[1])],
                     summary, 1)]
  /\ UNCHANGED <<env, summary, shop, sheet, now, page>>

\* A lookup whose null result is thrown like a failed request: the run ends
\* at the first SKU the platform does not know.
VariantLookupAbortsOnNull(r) ==
  /\ run[r].pc = "variant"
  /\ \E ok \in BOOLEAN :
       LET s == Returned(run[r], ok)
           f == RowFields(DataRows(summary)[s.i], s.headerMap)
           got == fetchVariantBySkuGraphQL(shop, ok, f.sku)
       IN run' = [run EXCEPT ![r] =
            IF got.threw \/ ~got.info.found THEN Failed(s, "Shopify GraphQL error")
            ELSE Issue([s EXCEPT !.pc = "inventory",
                                 !.variantInfo = got.info],
                       "inventory_lookup", <<got.info.inventoryItemId>>)]
  /\ UNCHANGED <<env, summary, shop, sheet, now, page>>

\* The variant lookup of row i returns (lines 616-641): a throw ends the run,
\* null is recorded and the loop goes on, a variant has its inventory looked up.
VariantLookup(r) ==
  /\ run[r].pc = "variant"
  /\ \E ok \in BOOLEAN :
       LET s == Returned(run[r], ok)
           f == RowFields(DataRows(summary)[s.i], s.headerMap)
           got == fetchVariantBySkuGraphQL(shop, ok, f.sku)
       IN run' = [run EXCEPT ![r] =
            IF got.threw THEN Failed(s, "Shopify GraphQL error")
            ELSE IF ~got.info.found
                 THEN ContinueLoop(
                        [s EXCEPT !.errors = Append(@,
                           [sku |-> f.sku, stage |-> "variant_lookup"])],
                        summary, s.i + 1)
                 ELSE Issue([s EXCEPT !.pc = "inventory",
                                      !.variantInfo = got.info],
                            "inventory_lookup", <<got.info.inventoryItemId>>)]
  /\ UNCHANGED <<env, summary, shop, sheet, now, page>>

\* An inventory lookup that throws on a non-successful response, as the
\* variant lookup does: the run ends in the catch block.
InventoryLookupThrows(r) ==
  /\ run[r].pc = "inventory"
  /\ \E ok \in BOOLEAN :
       LET s == Returned(run[r], ok)
           f == RowFields(DataRows(summary)[s.i], s.headerMap)
           availableQty == fetchAvailableInventoryREST(
                             shop, ok, s.variantInfo.inventoryItemId,
                             env["SHOPIFY_LOCATION_ID"])
       IN run' = [run EXCEPT ![r] =
            IF ~ok THEN Failed(s, "Shopify REST error")
            ELSE ContinueLoop(
                   [s EXCEPT !.snapshotRows = Append(@,
                      SnapshotRow(s, f, env["SHOPIFY_LOCATION_ID"], availableQty))],
                   summary, s.i + 1)]
  /\ UNCHANGED <<env, summary, shop, sheet, now, page>>

\* The inventory lookup of row i returns (lines 635-679): the row is built
\* and pushed, and the loop goes on.
InventoryLookup(r) ==
  /\ run[r].pc = "inventory"
  /\ \E ok \in BOOLEAN :
       LET s == Returned(run[r], ok)
           f == RowFields(DataRows(summary)[s.i], s.headerMap)
           availableQty == fetchAvailableInventoryREST(
                             shop, ok, s.variantInfo.inventoryItemId,
                             env["SHOPIFY_LOCATION_ID"])
       IN run' = [run EXCEPT ![r] =
            ContinueLoop(
              [s EXCEPT !.snapshotRows = Append(@,
                 SnapshotRow(s, f, env["SHOPIFY_LOCATION_ID"], availableQty))],
              summary, s.i + 1)]
  /\ UNCHANGED <<env, summary, shop, sheet, now, page>>

\* An append that evaluates the guard again: if the snapshot date has come
\* into the sheet since the guard read, nothing is written and the run ends
\* skipped.
AppendRowsRechecksGuard(r) ==
  /\ run[r].pc = "append"
  /\ \E ok \in BOOLEAN :
       LET s == Returned(run[r], ok) IN
       IF ok /\ ~GuardHit(DateColumn(sheet), s.snapshotDate)
       THEN /\ sheet' = sheet \o s.snapshotRows
            /\ run' = [run EXCEPT ![r] = Succeeded(s)]
       ELSE /\ sheet' = sheet
            /\ run' = [run EXCEPT ![r] =
                 IF ok THEN Skipped(s) ELSE Failed(s, "append")]
  /\ UNCHANGED <<env, summary, shop, now, page>>

\* The append returns (lines 683-697): the rows are at the end of the sheet,
\* or the call failed and nothing was written.
AppendRows(r) ==
  /\ run[r].pc = "append"
  /\ \E ok \in BOOLEAN :
       LET s == Returned(run[r], ok) IN
       IF ok
       THEN /\ sheet' = sheet \o s.snapshotRows
            /\ run' = [run EXCEPT ![r] = Succeeded(s)]
       ELSE /\ sheet' = sheet
            /\ run' = [run EXCEPT ![r] = Failed(s, "append")]
  /\ UNCHANGED <<env, summary, shop, now, page>>

\* Time passes, for as long as a request may still arrive to read the clock.
Tick ==
  /\ now < MaxNow
  /\ \E r \in Runs : run[r].pc = "idle"
  /\ now' = now + 1
  /\ UNCHANGED <<env, summary, shop, sheet, run, page>>

\* ----------------------------------------------------------------- inputs

\* Environments: every setting configured, but for at most MaxMissing of
\* them, each of which is unset or empty.
Envs ==
  { [n \in EnvNames |-> IF n \in DOMAIN bad THEN bad[n] ELSE Configured(n)] :
      bad \in UNION { [m -> { Undefined, "" }] :
                        m \in { x \in SUBSET EnvNames : Cardinality(x) <= MaxMissing } } }

ABC == <<"A","B","C">>

XYZ == <<"X","Y","Z">>

NOPE == <<"N","O","P","E">>

HeaderRow ==
  << <<"S","K","U">>,
     <<"C","o","l","o","r","w","a","y">>,
     <<"S","i","z","e">>,
     <<"C","l","a","s","s">>,
     <<"S","a","f","e","t","y"," ","S","t","o","c","k">> >>

RowABC == << ABC, <<"R","e","d">>, <<"Y","T","H","-","M","D">>, <<"A">>, <<"2","0">> >>

RowXYZ == << <<" ","X","Y","Z"," ">>, <<"B","l","u","e">>, <<"s","r","-","m","d"," ">>, <<"l","e">>, <<"0">> >>

RowNOPE == << NOPE, <<>>, <<"X","L">>, <<"b">>, <<"n","/","a">> >>

RowBlank == << <<" ">>, <<"R","e","d">>, <<"X","L">>, <<"A">>, <<"5">> >>

\* A second spelling of ABC's row, with a negative safety stock.
RowABCNeg == << <<"A","B","C"," ">>, <<>>, <<"S","R","-","L","G">>, <<"c">>, <<"-","5">> >>

\* The reference tables: no values at all, the header alone, and tables of
\* up to three data rows.
Summaries ==
  { <<>>,
    <<HeaderRow>>,
    <<HeaderRow, RowABC>>,
    <<HeaderRow, RowNOPE>>,
    <<HeaderRow, RowABCNeg>>,
    <<HeaderRow, RowABC, RowXYZ>>,
    <<HeaderRow, RowBlank, RowNOPE, RowABC>> }

Gid(kind, id) == <<"gid:", "", "shopify", kind, id>>

Num(n) == [isNumber |-> TRUE, val |-> n]

NotNum == [isNumber |-> FALSE, val |-> 0]

\* ABC with 25 available and XYZ with 3, both at location 1.
ShopA ==
  [ variants |-> <<
      [sku |-> ABC, id |-> Gid("ProductVariant", "11"), inventoryItem |-> Gid("InventoryItem", "111")],
      [sku |-> XYZ, id |-> Gid("ProductVariant", "22"), inventoryItem |-> Gid("InventoryItem", "222")] >>,
    levels |-> <<
      [inventory_item_id |-> "111", location_id |-> 1, available |-> Num(25)],
      [inventory_item_id |-> "222", location_id |-> 1, available |-> Num(3)] >> ]

\* ABC stocked at two locations, XYZ without an inventory item, and a
\* variant with no SKU.
ShopB ==
  [ variants |-> <<
      [sku |-> <<>>, id |-> Gid("ProductVariant", "33"), inventoryItem |-> Gid("InventoryItem", "333")],
      [sku |-> ABC, id |-> Gid("ProductVariant", "11"), inventoryItem |-> Gid("InventoryItem", "111")],
      [sku |-> XYZ, id |-> Gid("ProductVariant", "22"), inventoryItem |-> UndefinedGid] >>,
    levels |-> <<
      [inventory_item_id |-> "111", location_id |-> 2, available |-> Num(9)],
      [inventory_item_id |-> "111", location_id |-> 1, available |-> Num(5)],
      [inventory_item_id |-> "333", location_id |-> 1, available |-> NotNum] >> ]

Shops == { ShopA, ShopB }

\* ------------------------------------------- reference tables, in detail

Red == <<"R","e","d">>

\* Size cells as they are typed: the six core sizes in several spellings,
\* and sizes outside the core set.
SizeCells ==
  { <<"Y","T","H","-","M","D">>,
    <<"y","t","h","-","l","g">>,
    <<" ","Y","T","H","-","X","L">>,
    <<"S","R","-","S","M"," ">>,
    <<"s","r","-","m","d">>,
    <<"S","R","-","L","G">>,
    <<"X","L">>,
    <<>>,
    <<"S","R","-","X","L">>,
    <<"Y","T","H"," ","M","D">>,
    <<"S","R","M","D">> }

\* Class cells as they are typed.
ClassCells ==
  { <<"A">>,
    <<"b">>,
    <<" ","c"," ">>,
    <<"l","e">>,
    <<"L","E">>,
    <<"D">>,
    <<>>,
    <<"A","A">>,
    <<"L"," ","E">> }

\* Safety-stock cells as they are typed.
SafetyCells ==
  { <<"2","0">>,
    <<"0">>,
    <<>>,
    <<" ","7"," ">>,
    <<"n","/","a">>,
    <<"-","5">>,
    <<"1","0">>,
    <<"+","3">> }

RowOf(sku, size, classCell, safety) == << sku, Red, size, classCell, safety >>

\* One data row for ABC, of every class with a core size and another size.
ClassTables ==
  { <<HeaderRow, RowOf(ABC, size, classCell, <<"2","0">>)>> :
      size \in { <<"Y","T","H","-","M","D">>, <<"X","L">> }, classCell \in ClassCells }

\* One data row for ABC, of every size.
SizeTables ==
  { <<HeaderRow, RowOf(ABC, size, <<"A">>, <<"0">>)>> : size \in SizeCells }

\* One data row for ABC, of every safety stock, and one whose row ends before
\* the safety-stock column.
SafetyTables ==
  { <<HeaderRow, RowOf(ABC, <<"S","R","-","M","D">>, <<"B">>, safety)>> : safety \in SafetyCells }
  \cup { <<HeaderRow, << ABC, Red, <<"S","R","-","M","D">>, <<"B">> >> >> }

\* Tables without a SKU to process: no values, the header alone, and data
\* rows whose SKU is blank or that are empty.
EmptyTables ==
  { <<>>,
    <<HeaderRow>>,
    <<HeaderRow, RowBlank>>,
    <<HeaderRow, RowBlank, <<>> >> }

\* Tables that name ABC twice.
DuplicateTables ==
  { <<HeaderRow, RowABC, RowABCNeg>>,
    <<HeaderRow, RowABC, RowXYZ, RowABCNeg>> }

\* The columns in another order.
TableReordered ==
  << << <<"S","a","f","e","t","y"," ","S","t","o","c","k">>, <<"C","l","a","s","s">>, <<"S","K","U">>, <<"S","i","z","e">>, <<"C","o","l","o","r","w","a","y">> >>,
     << <<"2","0">>, <<"A">>, <<"A","B","C">>, <<"Y","T","H","-","M","D">>, <<"R","e","d">> >> >>

\* A column inserted before the others.
TableInserted ==
  << << <<"N","o","t","e","s">>, <<"S","K","U">>, <<"C","o","l","o","r","w","a","y">>, <<"S","i","z","e">>, <<"C","l","a","s","s">>, <<"S","a","f","e","t","y"," ","S","t","o","c","k">> >>,
     << <<"n","e","w">>, <<"A","B","C">>, <<"R","e","d">>, <<"Y","T","H","-","M","D">>, <<"A">>, <<"2","0">> >> >>

\* The colorway column removed: colorway falls back to index 3.
TableRemoved ==
  << << <<"S","K","U">>, <<"S","i","z","e">>, <<"C","l","a","s","s">>, <<"S","a","f","e","t","y"," ","S","t","o","c","k">> >>,
     << <<"A","B","C">>, <<"Y","T","H","-","M","D">>, <<"A">>, <<"2","0">> >> >>

\* Safety stock under its second name; colorway, size and class fall back
\* to indexes 3, 4 and 12.
TableSafetyOnly ==
  << << <<"S","K","U">>, <<"S","a","f","e","t","y">> >>,
     << <<"A","B","C">>, <<"7">>, <<"-">>, <<"R","e","d">>, <<"S","R","-","M","D">> >> >>

\* Both names of the safety stock, the second name first; colorway and size
\* at their fallback indexes 3 and 4, and no cell at index 12 for the class.
TableBothSafety ==
  << << <<"S","K","U">>, <<"S","a","f","e","t","y">>, <<"S","a","f","e","t","y"," ","S","t","o","c","k">> >>,
     << <<"A","B","C">>, <<"7">>, <<"2","0">>, <<"R","e","d">>, <<"S","R","-","M","D">> >> >>

\* Header cells that normalise to sku and to safetystock, which is not a
\* recognised name.
TableOddSpelling ==
  << << <<" ","S",".","K",".","U"," ">>, <<"s","a","f","e","t","y","-","s","t","o","c","k">> >>,
     << <<"A","B","C">>, <<"9">> >> >>

\* No recognised name at all: every field at its fallback index.
TableNoHeaders ==
  << << <<"c">>, <<"c">>, <<"c">>, <<"c">>, <<"c">>, <<"c">>, <<"c">>, <<"c">>, <<"c">>, <<"c">>, <<"c">>, <<"c">>, <<"c">>, <<"c">>, <<"c">>, <<"c">>, <<"c">>, <<"c">> >>,
     << <<"-">>, <<"-">>, <<"-">>, <<"R","e","d">>, <<"Y","T","H","-","L","G">>, <<"-">>, <<"-">>, <<"-">>, <<"-">>, <<"-">>, <<"-">>, <<"-">>, <<"l","e">>, <<"-">>, <<"4">>, <<"-">>, <<"-">>, <<"A","B","C">> >> >>

\* No SKU column and rows that end before index 17.
TableNoSku ==
  << << <<"C","o","l","o","r","w","a","y">>, <<"S","i","z","e">> >>,
     << <<"R","e","d">>, <<"X","L">> >> >>

HeaderTables ==
  { TableReordered,
    TableInserted,
    TableRemoved,
    TableSafetyOnly,
    TableBothSafety,
    TableOddSpelling,
    TableNoHeaders,
    TableNoSku }

\* SKUs N00, N01, ... that the platform does not know.
MissingSku(k) == << "N", DigitChars[(k \div 10) + 1], DigitChars[(k % 10) + 1] >>

\* ABC's row followed by n rows of SKUs the platform does not know.
CapTable(n) ==
  <<HeaderRow, RowABC>>
  \o [k \in 1..n |-> RowOf(MissingSku(k), <<"X","L">>, <<"B">>, <<"0">>)]

\* Tables with fewer unknown SKUs than the response may list, and with more.
CapTables == { CapTable(n) : n \in { 2, 26 } }

LayoutSummaries == EmptyTables \cup DuplicateTables \cup HeaderTables

ScoreSummaries == ClassTables \cup SizeTables \cup SafetyTables

RefSummaries == LayoutSummaries \cup ScoreSummaries

\* ------------------------------------------------------- GET handlers

\* Lines 707-709: status 405, { error: "Method not allowed" }.
MethodNotAllowed(s) ==
  [s EXCEPT !.pc = "done",
            !.resp = [NoResponse EXCEPT !.http = 405, !.status = Undefined,
                                        !.error = "Method not allowed"]]

\* A GET request to the snapshot route: the handler takes no argument and
\* answers at once, whatever the request carries.
GetBlocked(r) ==
  /\ run[r].pc = "idle"
  /\ \A q \in Runs : q < r => run[q].pc # "idle"
  /\ \E hdr \in Headers :
       run' = [run EXCEPT ![r] =
         MethodNotAllowed([run[r] EXCEPT !.method = "GET", !.secret = hdr])]
  /\ UNCHANGED <<env, summary, shop, sheet, now, page>>

\* The GET handler of src/unnamed/part_001, the trigger as it was first
\* written: it reads the reference table by column position, looks every SKU
\* up over REST and appends, with no guard read, no required settings and no
\* try block.

\* Column indexes (0-based) of part_001, lines 58-64.
COL == [colorway |-> 2, size |-> 3, class |-> 12, safety |-> 14, sku |-> 17]

\* part_001 line 31: the header is equal to CRON_SECRET (null is not
\* undefined, so a request without the header is refused when the secret is
\* not configured; an empty header equals an empty secret).
SecretMatches(secret, cronSecret) == secret = cronSecret

\* `!cell`: a cell that is not there, or the empty text.
NoCell(cell) == cell = UndefinedCell \/ cell = <<>>

\* The values of Summary!A2:Z: the table below its first row.
RowsBelowHeader(all) == IF all = <<>> THEN <<>> ELSE Tail(all)

\* part_001 line 80.
classWeight(classValue) ==
  CASE classValue = <<"A">> -> 2
    [] classValue = <<"B">> -> 1
    [] OTHER -> 0

\* part_001 lines 75-80: the cells of one row, as they are typed.
\* Number(r[COL.safety] || 0) is NaN for a cell that is not a number.
PositionalFields(r) ==
  LET classCell == CellAt(r, COL.class)
      classValue == IF NoCell(classCell) THEN <<>> ELSE classCell
      safetyCell == CellAt(r, COL.safety)
  IN [ sku |-> CellAt(r, COL.sku),
       colorway |-> CellAt(r, COL.colorway),
       size |-> CellAt(r, COL.size),
       classValue |-> classValue,
       safetyStock |-> IF NoCell(safetyCell) THEN [nan |-> FALSE, val |-> 0]
                       ELSE NumberOf(safetyCell),
       classWeight |-> classWeight(classValue) ]

\* part_001 lines 74-76: the first row at or after j whose SKU cell is there
\* and not empty, or 0.
NextPositionalRow(all, j) ==
  LET rows == RowsBelowHeader(all)
      cand == { k \in j..Len(rows) : ~NoCell(CellAt(rows[k], COL.sku)) }
  IN IF cand = {} THEN 0 ELSE CHOOSE k \in cand : \A m \in cand : k <= m

\* part_001 lines 144-148: { status: "ok", rowsInserted, snapshotDate }.
GetSucceeded(s) ==
  [s EXCEPT !.pc = "done",
            !.resp = [NoResponse EXCEPT
                        !.http = 200, !.status = "ok",
                        !.snapshotDate = s.snapshotDate,
                        !.rowsInserted = Len(s.snapshotRows)]]

\* A rejected await in part_001 is caught nowhere: the request ends with the
\* framework's 500 response, which has no body of the handler's.
GetCrashed(s) ==
  [s EXCEPT !.pc = "done",
            !.resp = [NoResponse EXCEPT !.http = 500, !.status = Undefined]]

\* part_001 lines 74-142 from row j up to the next await.
GetContinueLoop(s, all, j) ==
  LET k == NextPositionalRow(all, j) IN
  IF k # 0
  THEN Issue([s EXCEPT !.pc = "get_variant", !.i = k], "variant_lookup",
             CellAt(RowsBelowHeader(all)[k], COL.sku))
  ELSE IF s.snapshotRows # <<>>
       THEN Issue([s EXCEPT !.pc = "get_append"], "append", <<>>)
       ELSE GetSucceeded(s)

\* part_001 lines 90-94: variants?.[0] of variants.json?sku=..., null when the
\* response lists none; the ids are the numbers the gids end in.
VariantOfRest(sh, sku) ==
  LET hits == SelectSeq(sh.variants, LAMBDA v : v.sku = sku) IN
  IF hits = <<>> THEN NotFound
  ELSE [found |-> TRUE,
        variantId |-> GidTail(hits[1].id),
        inventoryItemId |-> IF NoGid(hits[1].inventoryItem) THEN "undefined"
                            ELSE GidTail(hits[1].inventoryItem)]

\* part_001 line 103: inventory_levels?.[0]?.available ?? 0, the first level
\* the response lists for the item, whatever its location and its type.
FirstLevelAvailable(sh, inventoryItemId) ==
  LET levels == SelectSeq(sh.levels,
                  LAMBDA l : l.inventory_item_id = inventoryItemId)
  IN IF levels = <<>> THEN Num(0) ELSE levels[1].available

\* availableQty - safetyStock, NaN when either is not a number.
Minus(availableQty, safetyStock) ==
  IF ~availableQty.isNumber \/ safetyStock.nan THEN [nan |-> TRUE, val |-> 0]
  ELSE [nan |-> FALSE, val |-> availableQty.val - safetyStock.val]

\* part_001 lines 105-110, as the fraction num / den.
depthRatio(availableQty, safetyStock) ==
  IF ~safetyStock.nan /\ safetyStock.val > 0
  THEN IF ~availableQty.isNumber THEN [nan |-> TRUE, num |-> 0, den |-> 1]
       ELSE IF availableQty.val >= safetyStock.val
            THEN [nan |-> FALSE, num |-> 1, den |-> 1]
            ELSE [nan |-> FALSE, num |-> availableQty.val, den |-> safetyStock.val]
  ELSE IF availableQty.isNumber /\ availableQty.val > 0
       THEN [nan |-> FALSE, num |-> 1, den |-> 1]
       ELSE [nan |-> FALSE, num |-> 0, den |-> 1]

\* part_001 lines 112-129: one row of sixteen columns.
PositionalRow(s, f, locationId, availableQty) ==
  LET ratio == depthRatio(availableQty, f.safetyStock) IN
  [ snapshot_date_et |-> s.snapshotDate,
    snapshot_ts_et |-> s.snapshotTs,
    run_id |-> s.runId,
    sku |-> f.sku,
    colorway |-> f.colorway,
    size |-> f.size,
    class |-> f.classValue,
    safety_stock |-> f.safetyStock,
    shopify_variant_id |-> s.variantInfo.variantId,
    inventory_item_id |-> s.variantInfo.inventoryItemId,
    location_id |-> locationId,
    available_qty |-> availableQty,
    balance_vs_safety |-> Minus(availableQty, f.safetyStock),
    depth_ratio |-> ratio,
    class_weight |-> f.classWeight,
    weighted_depth |-> [ratio EXCEPT !.num = @ * f.classWeight] ]

\* How a fetch of part_001 can end: a response with the data asked for, an
\* error response whose JSON body holds none, or a rejection (no connection,
\* a body that is not JSON).
FetchOutcomes == { "ok", "error", "throws" }

\* A GET request arrives at part_001 (lines 28-53): the security check, the
\* date, timestamp and run id, and the reference read issued.
GetBegin(r) ==
  /\ run[r].pc = "idle"
  /\ \A q \in Runs : q < r => run[q].pc # "idle"
  /\ \E hdr \in Headers :
       LET s == [run[r] EXCEPT !.method = "GET", !.secret = hdr] IN
       run' = [run EXCEPT ![r] =
         IF ~SecretMatches(hdr, env["CRON_SECRET"]) THEN Unauthorized(s)
         ELSE Issue([s EXCEPT !.pc = "get_reference",
                              !.snapshotDate = getETDate(now),
                              !.snapshotTs = getETTimestamp(now),
                              !.runId = MakeRunId(getETDate(now), now)],
                    "reference_read", <<>>)]
  /\ UNCHANGED <<env, summary, shop, sheet, now, page>>

\* The reference read of part_001 returns (lines 50-88).
GetReference(r) ==
  /\ run[r].pc = "get_reference"
  /\ \E ok \in BOOLEAN :
       LET s == Returned(run[r], ok) IN
       run' = [run EXCEPT ![r] =
         IF ~ok THEN GetCrashed(s) ELSE GetContinueLoop(s, summary, 1)]
  /\ UNCHANGED <<env, summary, shop, sheet, now, page>>

\* The variant fetch of row i returns (part_001 lines 83-100): no variant,
\* no row, and nothing recorded.
GetVariant(r) ==
  /\ run[r].pc = "get_variant"
  /\ \E out \in FetchOutcomes :
       LET s == Returned(run[r], out = "ok")
           f == PositionalFields(RowsBelowHeader(summary)[s.i])
           variant == IF out = "ok" THEN VariantOfRest(shop, f.sku) ELSE NotFound
       IN run' = [run EXCEPT ![r] =
            IF out = "throws" THEN GetCrashed(s)
            ELSE IF ~variant.found THEN GetContinueLoop(s, summary, s.i + 1)
            ELSE Issue([s EXCEPT !.pc = "get_inventory",
                                 !.variantInfo = variant],
                       "inventory_lookup", <<variant.inventoryItemId>>)]
  /\ UNCHANGED <<env, summary, shop, sheet, now, page>>

\* The inventory fetch of row i returns (part_001 lines 97-130).
GetInventory(r) ==
  /\ run[r].pc = "get_inventory"
  /\ \E out \in FetchOutcomes :
       LET s == Returned(run[r], out = "ok")
           f == PositionalFields(RowsBelowHeader(summary)[s.i])
           availableQty == IF out = "ok"
                           THEN FirstLevelAvailable(shop, s.variantInfo.inventoryItemId)
                           ELSE Num(0)
       IN run' = [run EXCEPT ![r] =
            IF out = "throws" THEN GetCrashed(s)
            ELSE GetContinueLoop(
                   [s EXCEPT !.snapshotRows = Append(@,
                      PositionalRow(s, f, env["SHOPIFY_LOCATION_ID"], availableQty))],
                   summary, s.i + 1)]
  /\ UNCHANGED <<env, summary, shop, sheet, now, page>>

\* The append of part_001 returns (lines 133-148).
GetAppend(r) ==
  /\ run[r].pc = "get_append"
  /\ \E ok \in BOOLEAN :
       LET s == Returned(run[r], ok) IN
       IF ok
       THEN /\ sheet' = sheet \o s.snapshotRows
            /\ run' = [run EXCEPT ![r] = GetSucceeded(s)]
       ELSE /\ sheet' = sheet
            /\ run' = [run EXCEPT ![r] = GetCrashed(s)]
  /\ UNCHANGED <<env, summary, shop, now, page>>

\* ---------------------------------------------------------- dashboard page

MaxLoads == 4

\* type DateRangeKey (line 31)
DateRangeKeys == { "today", "yesterday", "last7", "last30", "custom" }

\* mockSummary (lines 101-164): the time it is built at, and the factor and
\* the conversion rate its figures are scaled by, in hundredths.
mockSummary(range, t) ==
  LET factor == IF range = "today" THEN 100
                ELSE IF range = "yesterday" THEN 92
                ELSE IF range = "last7" THEN 108
                ELSE IF range = "last30" THEN 102
                ELSE 100
      cvr == IF range = "today" THEN 100
             ELSE IF range = "yesterday" THEN 95
             ELSE 103
  IN [ lastUpdatedISO |-> t, kpis |-> [factor |-> factor, cvr |-> cvr] ]

\* const days = range === "last30" ? 30 : range === "last7" ? 7 : 14
DaysOf(range) ==
  IF range = "last30" THEN 30 ELSE IF range = "last7" THEN 7 ELSE 14

\* mockInventoryIndex (lines 166-191): a series of `days` points and the two
\* availability percentages.
mockInventoryIndex(range) ==
  [ days |-> DaysOf(range),
    aAvailabilityPct |-> 92 - (IF range = "yesterday" THEN 3 ELSE 0),
    bAvailabilityPct |-> 84 + (IF range = "last7" THEN 2 ELSE 0) ]

\* mockTrends (lines 193-218): series of `days` points.
mockTrends(range) == [ days |-> DaysOf(range) ]

\* mockInventory (line 220): the same rows whatever the range.
mockInventory == [ rows |-> "rows" ]

\* mockMarketing (lines 287-308): series of `days` points.
mockMarketing(range) == [ days |-> DaysOf(range) ]

\* A piece of state that is null until loaded: <<>> or <<payload>>.
NoPayload == <<>>

Payload(x) == <<x>>

\* The page before it is opened: the initial values of useState (663-672),
\* no effect run yet.
ClosedPage ==
  [ mounted |-> FALSE, range |-> "last7", loading |-> TRUE,
    summary |-> NoPayload, invIndex |-> NoPayload, trends |-> NoPayload,
    inventory |-> NoPayload, marketing |-> NoPayload, timers |-> <<>> ]

\* A cleanup that neither sets the flag nor clears the timer.
CleanupForgets(p) == p

\* The cleanup of the effect that ran last (lines 689-692): its flag is set
\* and its timer cleared; clearing a timer that has fired does nothing.
Cleanup(p) ==
  IF p.timers = <<>> THEN p
  ELSE [p EXCEPT !.timers[Len(p.timers)] =
          [ range |-> @.range,
            cancelled |-> TRUE,
            st |-> IF @.st = "pending" THEN "cleared" ELSE @.st ]]

\* The effect (lines 675-687): a new flag, loading set, a timer of 650 ms
\* whose callback holds the range of this render.
Effect(p) ==
  [p EXCEPT !.loading = TRUE,
            !.timers = Append(@, [range |-> p.range, cancelled |-> FALSE,
                                  st |-> "pending"])]

\* The callback of timer k (lines 679-686), at time t.
Callback(p, k, t) ==
  IF p.timers[k].cancelled THEN p
  ELSE [p EXCEPT !.summary = Payload(mockSummary(p.timers[k].range, t)),
                 !.invIndex = Payload(mockInventoryIndex(p.timers[k].range)),
                 !.trends = Payload(mockTrends(p.timers[k].range)),
                 !.inventory = Payload(mockInventory),
                 !.marketing = Payload(mockMarketing(p.timers[k].range)),
                 !.loading = FALSE]

\* The page after its first render: the effect has run for the initial range.
OpenedPage == Effect([ClosedPage EXCEPT !.mounted = TRUE])

\* The user picks another range (lines 422, 735): setRange, the render, and
\* with the commit the cleanup of the last effect and the effect anew, its
\* dependency [range] having changed (line 693). All of it runs within the
\* task of the change event, before any timer callback.
SelectRange(v) ==
  /\ page.mounted
  /\ v # page.range
  /\ Len(page.timers) < MaxLoads
  /\ page' = Effect(Cleanup([page EXCEPT !.range = v]))
  /\ UNCHANGED <<env, summary, shop, sheet, now, run>>

\* Timer k is due and its callback runs.
TimerFires(k) ==
  /\ page.mounted
  /\ page.timers[k].st = "pending"
  /\ page' = Callback([page EXCEPT !.timers[k].st = "fired"], k, now)
  /\ UNCHANGED <<env, summary, shop, sheet, now, run>>

\* ---------------------------------------------------------- specification

\* Overlapping requests are explored on these reference tables and this shop.
OverlapSummaries ==
  { <<HeaderRow, RowABC>>,
    <<HeaderRow, RowNOPE, RowABC>> }

OverlapShops == { ShopA }

Init ==
  /\ env \in Envs
  /\ summary \in OverlapSummaries
  /\ shop \in OverlapShops
  /\ sheet = <<>>
  /\ now = 0
  /\ run = [r \in Runs |-> IdleRun]
  /\ page = ClosedPage

InitSeq ==
  /\ env \in Envs
  /\ summary \in Summaries
  /\ shop \in Shops
  /\ sheet = <<>>
  /\ now = 0
  /\ run = [r \in Runs |-> IdleRun]
  /\ page = ClosedPage

Next ==
  \/ \E r \in Runs : Begin(r)
  \/ \E r \in Runs : GuardRead(r)
  \/ \E r \in Runs : ReferenceRead(r)
  \/ \E r \in Runs : VariantLookup(r)
  \/ \E r \in Runs : InventoryLookup(r)
  \/ \E r \in Runs : AppendRows(r)
  \/ Tick

\* Requests may overlap: each handler yields at every await.
Spec == Init /\ [][Next]_vars

\* Single-invocation scheduling: a request arrives only when no other is in
\* progress.
NoneInProgress == \A q \in Runs : run[q].pc \in { "idle", "done" }

BeginSeq(r) == NoneInProgress /\ Begin(r)

NextSeq ==
  \/ \E r \in Runs : BeginSeq(r)
  \/ \E r \in Runs : GuardRead(r)
  \/ \E r \in Runs : ReferenceRead(r)
  \/ \E r \in Runs : VariantLookup(r)
  \/ \E r \in Runs : InventoryLookup(r)
  \/ \E r \in Runs : AppendRows(r)
  \/ Tick

SpecSeq == InitSeq /\ [][NextSeq]_vars

\* Authorized requests, one after the other, with every setting configured,
\* on the tables that vary the layout of the reference table.
InitRef ==
  /\ env = [n \in EnvNames |-> Configured(n)]
  /\ summary \in LayoutSummaries
  /\ shop \in Shops
  /\ sheet = <<>>
  /\ now = 0
  /\ run = [r \in Runs |-> IdleRun]
  /\ page = ClosedPage

BeginRef(r) == BeginSeq(r) /\ run'[r].secret = env["CRON_SECRET"]

NextRef ==
  \/ \E r \in Runs : BeginRef(r)
  \/ \E r \in Runs : GuardRead(r)
  \/ \E r \in Runs : ReferenceRead(r)
  \/ \E r \in Runs : VariantLookup(r)
  \/ \E r \in Runs : InventoryLookup(r)
  \/ \E r \in Runs : AppendRows(r)
  \/ Tick

SpecRef == InitRef /\ [][NextRef]_vars

\* The same requests on the tables that vary the size, class and safety
\* stock of one row; the safety stocks are explored on both shops.
InitScore ==
  /\ env = [n \in EnvNames |-> Configured(n)]
  /\ summary \in ScoreSummaries
  /\ shop \in IF summary \in SafetyTables THEN Shops ELSE { ShopA }
  /\ sheet = <<>>
  /\ now = 0
  /\ run = [r \in Runs |-> IdleRun]
  /\ page = ClosedPage

SpecScore == InitScore /\ [][NextRef]_vars

\* The tables on which rows and errors are counted: those of unknown SKUs,
\* one with a row without a SKU, and one that names ABC twice.
CountTables ==
  CapTables \cup { <<HeaderRow, RowBlank, RowNOPE, RowABC>>,
                   <<HeaderRow, RowABC, RowXYZ, RowABCNeg>> }

\* The same requests within one instant of the clock, on the tables of
\* unknown SKUs.
InitCap ==
  /\ env = [n \in EnvNames |-> Configured(n)]
  /\ summary \in CountTables
  /\ shop = ShopA
  /\ sheet = <<>>
  /\ now = 0
  /\ run = [r \in Runs |-> IdleRun]
  /\ page = ClosedPage

NextCap ==
  \/ \E r \in Runs : BeginRef(r)
  \/ \E r \in Runs : GuardRead(r)
  \/ \E r \in Runs : ReferenceRead(r)
  \/ \E r \in Runs : VariantLookup(r)
  \/ \E r \in Runs : InventoryLookup(r)
  \/ \E r \in Runs : AppendRows(r)

SpecCap == InitCap /\ [][NextCap]_vars

\* Overlapping requests whose external calls all return or fail: a handler
\* suspended at an await is resumed, so the step after each await is weakly
\* fair. Nothing obliges a request to arrive; the requests are explored
\* within one instant of the clock.
InitLive ==
  /\ env \in Envs
  /\ summary \in { <<HeaderRow>>, <<HeaderRow, RowNOPE>>, <<HeaderRow, RowABC>> }
  /\ shop = ShopA
  /\ sheet = <<>>
  /\ now = 0
  /\ run = [r \in Runs |-> IdleRun]
  /\ page = ClosedPage

\* WF_vars(VariantLookup(r)) and WF_vars(InventoryLookup(r)), with
\* ENABLED <<A>>_vars written as the state predicate it equals: the step
\* after the await of line 616 (635) is enabled exactly when the handler is
\* suspended there, and it always changes the call log.
LookupsReturn(r) ==
  /\ []<>(run[r].pc # "variant") \/ []<><<VariantLookup(r)>>_vars
  /\ []<>(run[r].pc # "inventory") \/ []<><<InventoryLookup(r)>>_vars

CallsReturn ==
  \A r \in Runs :
    /\ WF_vars(GuardRead(r))
    /\ WF_vars(ReferenceRead(r))
    /\ WF_vars(AppendRows(r))
    /\ LookupsReturn(r)

NextLive ==
  \/ \E r \in Runs : Begin(r)
  \/ \E r \in Runs : GuardRead(r)
  \/ \E r \in Runs : ReferenceRead(r)
  \/ \E r \in Runs : VariantLookup(r)
  \/ \E r \in Runs : InventoryLookup(r)
  \/ \E r \in Runs : AppendRows(r)

SpecLive == InitLive /\ [][NextLive]_vars /\ CallsReturn

\* A row of eighteen cells, the fields at the column indexes of COL.
WideRow(sku, classCell, safety) ==
  << <<"-">>, <<"-">>, Red, <<"S","R","-","M","D">>, <<"-">>, <<"-">>,
     <<"-">>, <<"-">>, <<"-">>, <<"-">>, <<"-">>, <<"-">>, classCell,
     <<"-">>, safety, <<"-">>, <<"-">>, sku >>

WideHeader == [k \in 1..18 |-> <<"c">>]

\* Tables in the layout part_001 reads: ABC alone, ABC after a row without
\* a SKU and an unknown SKU, and a row that ends before the SKU column.
WideSummaries ==
  { <<WideHeader>>,
    <<WideHeader, WideRow(ABC, <<"A">>, <<"2","0">>)>>,
    <<WideHeader, WideRow(<<>>, <<"B">>, <<"5">>), WideRow(NOPE, <<"b">>, <<"n","/","a">>),
      WideRow(ABC, <<"B">>, <<"1","0">>)>>,
    <<WideHeader, << <<"-">>, <<"-">>, Red >>, WideRow(XYZ, <<>>, <<>>)>> }

\* ABC stocked at another location only, and XYZ with an available value
\* that is not a number.
ShopC ==
  [ variants |-> <<
      [sku |-> ABC, id |-> Gid("ProductVariant", "11"), inventoryItem |-> Gid("InventoryItem", "111")],
      [sku |-> XYZ, id |-> Gid("ProductVariant", "22"), inventoryItem |-> Gid("InventoryItem", "222")] >>,
    levels |-> <<
      [inventory_item_id |-> "111", location_id |-> 2, available |-> Num(9)],
      [inventory_item_id |-> "222", location_id |-> 1, available |-> NotNum] >> ]

\* GET requests, one after the other: to the snapshot route, which blocks
\* them, and to the handler of part_001. Every setting is configured but,
\* in some environments, the trigger secret.
InitGet ==
  /\ env \in { e \in Envs : \A i \in DOMAIN RequiredEnv : ~Falsy(e[RequiredEnv[i]]) }
  /\ summary \in WideSummaries
  /\ shop \in Shops \cup { ShopC }
  /\ sheet = <<>>
  /\ now = 0
  /\ run = [r \in Runs |-> IdleRun]
  /\ page = ClosedPage

NextGet ==
  \/ \E r \in Runs : NoneInProgress /\ GetBlocked(r)
  \/ \E r \in Runs : NoneInProgress /\ GetBegin(r)
  \/ \E r \in Runs : GetReference(r)
  \/ \E r \in Runs : GetVariant(r)
  \/ \E r \in Runs : GetInventory(r)
  \/ \E r \in Runs : GetAppend(r)
  \/ Tick

SpecGet == InitGet /\ [][NextGet]_vars

\* The dashboard page, opened, with no request at the server.
InitPage ==
  /\ env = [n \in EnvNames |-> Configured(n)]
  /\ summary = <<HeaderRow, RowABC>>
  /\ shop = ShopA
  /\ sheet = <<>>
  /\ now = 0
  /\ run = [r \in Runs |-> IdleRun]
  /\ page = OpenedPage

NextPage ==
  \/ \E v \in DateRangeKeys : SelectRange(v)
  \/ \E k \in 1..MaxLoads : k <= Len(page.timers) /\ TimerFires(k)
  \/ Tick

\* A timer that is due is run by the event loop.
TimersRun == WF_vars(\E k \in 1..MaxLoads : k <= Len(page.timers) /\ TimerFires(k))

SpecPage == InitPage /\ [][NextPage]_vars /\ TimersRun

\* ----------------------------------------------------------------- claims

Done(r) == run[r].pc = "done"

Status(r) == run[r].resp.status

\* The positions of run r's calls of one kind.
CallsOf(r, op) == { k \in DOMAIN run[r].ops : run[r].ops[k].op = op }

\* Run r's append returned successfully: its rows are in the sheet.
Appended(r) == \E k \in CallsOf(r, "append") : run[r].ops[k].res = "ok"

\* Runs r1 and r2 both got past the settings, on the same calendar day.
SameDay(r1, r2) ==
  /\ run[r1].snapshotDate >= 0
  /\ run[r1].snapshotDate = run[r2].snapshotDate

\* C1 as stated, for a first run that ends ok: of two authorized runs on one
\* calendar day, one after the other, the first appends rows and the second
\* ends skipped. (Checked under SpecSeq; refuted by a first run in which no
\* SKU resolves to a variant.)
C1_SecondAlwaysSkipped ==
  \A r1, r2 \in Runs :
    ( /\ r1 < r2
      /\ Done(r1) /\ Done(r2)
      /\ SameDay(r1, r2)
      /\ \A q \in Runs : q < r1 => run[q].snapshotDate # run[r1].snapshotDate
      /\ Status(r1) = "ok"
      /\ run[r2].ops[1].res = "ok" )
    => /\ Appended(r1)
       /\ Status(r2) = "skipped"
       /\ ~Appended(r2)

\* C1, amended: of two authorized runs on one calendar day, one after the
\* other, at most one appends rows; and if the first appended rows, the
\* second issues no append and ends skipped (or error, when its own guard
\* read fails).
C1_Idempotent ==
  \A r1, r2 \in Runs :
    (r1 < r2 /\ Done(r1) /\ Done(r2) /\ SameDay(r1, r2))
    => /\ ~(Appended(r1) /\ Appended(r2))
       /\ Appended(r1) =>
            /\ CallsOf(r2, "append") = {}
            /\ run[r2].resp.rowsInserted = 0
            /\ Status(r2) \in { "skipped", "error" }
            /\ run[r2].ops[1].res = "ok" => Status(r2) = "skipped"

C1_Witness ==
  \E r1, r2 \in Runs :
    /\ r1 < r2 /\ Done(r1) /\ Done(r2) /\ SameDay(r1, r2)
    /\ Appended(r1) /\ run[r1].resp.rowsInserted >= 1
    /\ Status(r2) = "skipped"

\* C2 as stated: all rows of the sheet that carry the same snapshotDate carry
\* the same runId, after any runs, overlapping or not.
C2_DateUniqueAcrossRuns ==
  \A i, j \in DOMAIN sheet :
    sheet[i].snapshot_date_et = sheet[j].snapshot_date_et
    => sheet[i].run_id = sheet[j].run_id

\* C2, amended: rows of one snapshotDate carry different runIds only when the
\* run that wrote the later row read the guard column before the earlier row
\* was appended; runs that do not overlap leave one runId per snapshotDate.
C2_DateUniqueUnlessOverlap ==
  \A i, j \in DOMAIN sheet :
    ( /\ i < j
      /\ sheet[i].snapshot_date_et = sheet[j].snapshot_date_et
      /\ sheet[i].run_id # sheet[j].run_id )
    => \E r \in Runs :
         /\ Appended(r)
         /\ run[r].runId = sheet[j].run_id
         /\ Len(run[r].dateCol) < i

C2_Witness ==
  \E i, j \in DOMAIN sheet :
    /\ i < j
    /\ sheet[i].snapshot_date_et = sheet[j].snapshot_date_et
    /\ sheet[i].run_id # sheet[j].run_id

\* C3: a run whose guard read finds its snapshotDate in column A ends skipped
\* having issued nothing but that read (no reference read, no lookup, no
\* append), and only such a run ends skipped.
C3_SkippedDoesNothing ==
  \A r \in Runs :
    /\ ( /\ run[r].ops # <<>>
         /\ run[r].ops[1].res = "ok"
         /\ \E k \in DOMAIN run[r].dateCol :
              run[r].dateCol[k] = run[r].snapshotDate )
       => /\ Done(r)
          /\ Status(r) = "skipped"
          /\ run[r].resp.http = 200
          /\ Len(run[r].ops) = 1
          /\ run[r].snapshotRows = <<>>
    /\ Status(r) = "skipped"
       => /\ Len(run[r].ops) = 1
          /\ run[r].ops[1].op = "guard_read"
          /\ \E k \in DOMAIN run[r].dateCol :
               run[r].dateCol[k] = run[r].snapshotDate

C3_Witness ==
  \E r \in Runs :
    /\ Status(r) = "skipped"
    /\ sheet # <<>>
    /\ Len(run[r].ops) = 1

\* The SKU of each data row of a reference table, trimmed.
SkusOf(all) ==
  IF Len(all) < 2 THEN <<>>
  ELSE LET headerMap == buildHeaderIndexMap(all[1]) IN
       [k \in DOMAIN DataRows(all) |-> RowSku(DataRows(all)[k], headerMap)]

\* The same, worked out once for every reference table of the model.
SkuTable ==
  [all \in Summaries \cup OverlapSummaries \cup RefSummaries \cup CapTables |->
     SkusOf(all)]

SkuOfRow(k) == SkuTable[summary][k]

\* The data rows of the reference table whose SKU is not empty after trimming.
SkuRows ==
  LET skus == SkuTable[summary] IN { k \in DOMAIN skus : skus[k] # <<>> }

RECURSIVE RowsOfRuns(_)
RowsOfRuns(S) ==
  IF S = {} THEN 0
  ELSE LET r == CHOOSE x \in S : TRUE IN
       Len(run[r].snapshotRows) + RowsOfRuns(S \ {r})

\* C4: a run issues at most one append, as its last call, after a variant
\* lookup for every reference row with a SKU, each of which gave a row or an
\* error; a successful append puts all the run's rows in the sheet in one
\* block; and the sheet holds the rows of the runs whose append succeeded and
\* nothing else: a run that ends in error has written no row.
C4_AllOrNothing ==
  /\ \A r \in Runs :
       /\ Cardinality(CallsOf(r, "append")) <= 1
       /\ \A k \in CallsOf(r, "append") :
            /\ k = Len(run[r].ops)
            /\ Cardinality(CallsOf(r, "variant_lookup")) = Cardinality(SkuRows)
            /\ Len(run[r].snapshotRows) + Len(run[r].errors) = Cardinality(SkuRows)
            /\ run[r].snapshotRows # <<>>
            /\ run[r].ops[k].res = "ok" =>
                 /\ Status(r) = "ok"
                 /\ run[r].resp.rowsInserted = Len(run[r].snapshotRows)
                 /\ \E off \in 0..Len(sheet) :
                      SubSeq(sheet, off + 1, off + Len(run[r].snapshotRows))
                        = run[r].snapshotRows
       /\ Status(r) = "error" =>
            /\ ~Appended(r)
            /\ run[r].resp.rowsInserted = 0
  /\ Len(sheet) = RowsOfRuns({ r \in Runs : Appended(r) })

C4_Witness ==
  /\ \E r \in Runs :
       /\ Status(r) = "ok"
       /\ Appended(r)
       /\ Len(run[r].snapshotRows) = 2
  /\ \E r \in Runs :
       /\ Status(r) = "error"
       /\ run[r].snapshotRows # <<>>

\* The variants of the catalog with a non-empty SKU.
CatalogVariants == SelectSeq(shop.variants, LAMBDA v : v.sku # <<>>)

AllCallsOk(r) == \A k \in DOMAIN run[r].ops : run[r].ops[k].res = "ok"

\* The end-to-end scenario: the reference table holds ABC (class A, size
\* YTH-MD, safety stock 20), the catalog ABC with 25 available and XYZ with 3.
EndToEnd(r) ==
  /\ summary = <<HeaderRow, RowABC>>
  /\ shop = ShopA
  /\ Status(r) = "ok"
  /\ AllCallsOk(r)

RowIsABC(row) ==
  /\ row.sku = ABC
  /\ row.safety_stock = 20
  /\ row.available_qty = 25
  /\ row.total_weight = 12
  /\ row.balance_vs_safety = 5
  /\ row.in_stock_flag = 1
  /\ row.weighted_in_stock = 12

Unauthentic(r) ==
  \/ run[r].secret \in { Null, "" }
  \/ run[r].secret # env["CRON_SECRET"]
  \/ env["CRON_SECRET"] \in { Undefined, "" }

\* C7: a POST request that is not authorized gets the 401 Unauthorized
\* response at once and has no side effects: it has issued no call, read no
\* clock and built no row.
C7_UnauthorizedNoSideEffects ==
  \A r \in Runs :
    (run[r].pc # "idle" /\ Unauthentic(r)) =>
      /\ Done(r)
      /\ run[r].resp.http = 401
      /\ run[r].resp.error = "Unauthorized"
      /\ run[r].resp.status = Undefined
      /\ run[r].ops = <<>>
      /\ run[r].snapshotDate = -1
      /\ run[r].snapshotRows = <<>>

C7_Witness ==
  /\ \E r \in Runs : Done(r) /\ run[r].secret = "" /\ env["CRON_SECRET"] = ""
                     /\ run[r].resp.http = 401
  /\ \E r \in Runs : Done(r) /\ run[r].secret = "wrong" /\ run[r].resp.http = 401

\* A setting is missing from the environment.
SettingMissing == \E n \in EnvNames : Falsy(env[n])

\* C8: if any required setting is missing, the request fails before any
\* network call: the handler ends at once with no call issued (no guard read,
\* no reference read, no lookup, no append) and an error status, which is
\* status error (500) naming a missing setting for an authorized request, and
\* the 401 rejection when the trigger secret is the missing one.
C8_MissingSettingNoCall ==
  \A r \in Runs :
    (run[r].pc # "idle" /\ SettingMissing) =>
      /\ Done(r)
      /\ run[r].ops = <<>>
      /\ run[r].resp.http \in { 401, 500 }
      /\ Falsy(env["CRON_SECRET"]) => run[r].resp.http = 401
      /\ (~Falsy(env["CRON_SECRET"]) /\ run[r].secret = env["CRON_SECRET"]) =>
           /\ run[r].resp.http = 500
           /\ Status(r) = "error"
           /\ \E i \in DOMAIN RequiredEnv :
                /\ run[r].resp.message = RequiredEnv[i]
                /\ Falsy(env[RequiredEnv[i]])

C8_Witness ==
  \E r \in Runs :
    /\ Done(r)
    /\ Falsy(env["SHOPIFY_LOCATION_ID"])
    /\ Status(r) = "error"
    /\ run[r].ops = <<>>

RowOfCall(r, k) == Cardinality({ j \in CallsOf(r, "inventory_lookup") : j <= k })

\* C10: an inventory lookup that returns a non-successful response does not
\* end the run and makes no entry in the error list; the row built from it
\* has available quantity 0, in-stock 0 and weighted contribution 0, whatever
\* the safety stock of its reference row.
C10_InventoryFailureIsZero ==
  \A r \in Runs :
    \A k \in CallsOf(r, "inventory_lookup") :
      run[r].ops[k].res = "failed" =>
        /\ RowOfCall(r, k) \in DOMAIN run[r].snapshotRows
        /\ LET row == run[r].snapshotRows[RowOfCall(r, k)] IN
             /\ row.inventory_item_id = run[r].ops[k].arg[1]
             /\ row.available_qty = 0
             /\ row.in_stock_flag = 0
             /\ row.weighted_in_stock = 0
             /\ row.balance_vs_safety = 0 - row.safety_stock
             /\ \A e \in DOMAIN run[r].errors : run[r].errors[e].sku # row.sku
        /\ ~(Status(r) = "error" /\ k = Len(run[r].ops))
        /\ ( /\ Done(r)
             /\ \A j \in DOMAIN run[r].ops :
                  run[r].ops[j].op # "inventory_lookup" => run[r].ops[j].res = "ok" )
           => Status(r) = "ok"

C10_Witness ==
  \E r \in Runs :
    /\ Status(r) = "ok"
    /\ \E k \in CallsOf(r, "inventory_lookup") :
         /\ run[r].ops[k].res = "failed"
         /\ run[r].snapshotRows[RowOfCall(r, k)].safety_stock <= 0
         /\ run[r].snapshotRows[RowOfCall(r, k)].total_weight > 0
    /\ \E k \in CallsOf(r, "inventory_lookup") :
         /\ run[r].ops[k].res = "failed"
         /\ run[r].snapshotRows[RowOfCall(r, k)].safety_stock > 0

\* Call k of run r is a variant lookup that succeeded and found no variant
\* with both ids: the recoverable failure.
Recoverable(r, k) ==
  /\ run[r].ops[k].op = "variant_lookup"
  /\ run[r].ops[k].res = "ok"
  /\ ~VariantOfResponse(shop, run[r].ops[k].arg).found

\* C11: a variant lookup that succeeds but gives no variant (none with that
\* SKU, or one without a variant id or inventory-item id) adds one entry to
\* the run's error list, naming the SKU, and no row for that SKU; the run goes
\* on with the lookup of the next reference row with a SKU, or past the last
\* row with the append or the ok response, and if no call fails it ends with
\* status ok having looked up every reference row with a SKU.
C11_RecoverableSkipsSku ==
  \A r \in Runs :
    /\ Len(run[r].errors) =
         Cardinality({ k \in DOMAIN run[r].ops : Recoverable(r, k) })
    /\ \A k \in DOMAIN run[r].ops :
         Recoverable(r, k) =>
           LET e == Cardinality({ j \in 1..k : Recoverable(r, j) })
               n == Cardinality({ j \in CallsOf(r, "variant_lookup") : j <= k })
           IN /\ run[r].errors[e] =
                   [sku |-> run[r].ops[k].arg, stage |-> "variant_lookup"]
              /\ \A m \in DOMAIN run[r].snapshotRows :
                   run[r].snapshotRows[m].sku # run[r].ops[k].arg
              /\ n < Cardinality(SkuRows) =>
                   /\ k + 1 \in DOMAIN run[r].ops
                   /\ run[r].ops[k + 1].op = "variant_lookup"
              /\ n = Cardinality(SkuRows) =>
                   IF run[r].snapshotRows = <<>>
                   THEN k = Len(run[r].ops) /\ Status(r) = "ok"
                   ELSE /\ k + 1 = Len(run[r].ops)
                        /\ run[r].ops[k + 1].op = "append"
              /\ (Done(r) /\ AllCallsOk(r)) =>
                   /\ Status(r) = "ok"
                   /\ run[r].resp.errorsCount = Len(run[r].errors)
                   /\ Cardinality(CallsOf(r, "variant_lookup")) = Cardinality(SkuRows)

C11_Witness ==
  \E r \in Runs :
    /\ Status(r) = "ok"
    /\ Appended(r)
    /\ Len(run[r].errors) = 1
    /\ \E k \in DOMAIN run[r].ops :
         /\ Recoverable(r, k)
         /\ run[r].ops[k].arg = NOPE
         /\ k + 1 \in CallsOf(r, "variant_lookup")

\* The message of the response of lines 556-559.
NoRowsMessage == "Summary sheet has no rows to process"

\* C12: when the reference read returns fewer than 2 rows (nothing, or the
\* header alone) the run ends at once with status error (500, "no rows to
\* process"): the read is its last call, it issues no variant or inventory
\* lookup and no append, and the sheet stays empty; a table with a header and
\* at least one data row never gives this error, and when none of its data
\* rows has a SKU the run ends ok with zero rows and no lookup.
C12_FewerThanTwoRowsIsError ==
  /\ Len(summary) < 2 => sheet = <<>>
  /\ \A r \in Runs :
       /\ \A k \in CallsOf(r, "reference_read") :
            run[r].ops[k].res = "ok" =>
              IF Len(summary) < 2
              THEN /\ Done(r)
                   /\ Status(r) = "error"
                   /\ run[r].resp.http = 500
                   /\ run[r].resp.message = NoRowsMessage
                   /\ k = Len(run[r].ops)
                   /\ CallsOf(r, "variant_lookup") = {}
                   /\ CallsOf(r, "inventory_lookup") = {}
                   /\ CallsOf(r, "append") = {}
                   /\ run[r].snapshotRows = <<>>
              ELSE /\ run[r].resp.message # NoRowsMessage
                   /\ SkuRows = {} =>
                        /\ Done(r)
                        /\ Status(r) = "ok"
                        /\ run[r].resp.rowsInserted = 0
                        /\ k = Len(run[r].ops)
       /\ run[r].resp.message = NoRowsMessage => Len(summary) < 2

C12_Witness ==
  \E r \in Runs :
    /\ summary = <<HeaderRow>>
    /\ Status(r) = "error"
    /\ run[r].resp.message = NoRowsMessage
    /\ Len(run[r].ops) = 2
    /\ run[r].ops[2].res = "ok"

\* Every row a run has built, written to the sheet or not.
EmittedRows ==
  UNION { { run[r].snapshotRows[m] : m \in DOMAIN run[r].snapshotRows } : r \in Runs }

\* C13 as stated: in every emitted row the in-stock flag is 1 exactly when
\* (safetyStock > 0 and availableQuantity >= safetyStock) or (safetyStock = 0
\* and availableQuantity > 0), and the weighted contribution is totalWeight
\* when the flag is 1 and 0 otherwise. (Refuted by a row whose safety stock is
\* negative: the flag is 1 as soon as anything is available.)
C13_SafetyAwareFlag ==
  \A row \in EmittedRows :
    /\ row.in_stock_flag \in { 0, 1 }
    /\ row.in_stock_flag = 1 <=>
         \/ row.safety_stock > 0 /\ row.available_qty >= row.safety_stock
         \/ row.safety_stock = 0 /\ row.available_qty > 0
    /\ row.weighted_in_stock =
         IF row.in_stock_flag = 1 THEN row.total_weight ELSE 0

\* The columns A to S of a snapshot row (lines 659-677).
SnapshotColumns ==
  { "snapshot_date_et", "snapshot_ts_et", "run_id", "sku", "colorway", "size",
    "class", "size_class", "safety_stock", "shopify_variant_id",
    "inventory_item_id", "location_id", "available_qty", "balance_vs_safety",
    "product_class_weight", "size_class_weight", "total_weight",
    "in_stock_flag", "weighted_in_stock" }

\* The columns that hold numbers, but for the in-stock flag and its weighted
\* contribution.
OtherNumberColumns ==
  { "safety_stock", "available_qty", "balance_vs_safety",
    "product_class_weight", "size_class_weight", "total_weight" }

\* The any-positive flag of scoring variant v2.
AnyPositive(row) == IF row.available_qty > 0 THEN 1 ELSE 0

SourcesOf(row) ==
  { k \in 2..Len(summary) : Trim(OrEmpty(CellAt(summary[k], 0))) = row.sku }

\* C15: under the header SKU, Colorway, Size, Class, Safety Stock every
\* emitted row comes from a data row whose class cell, trimmed and
\* upper-cased, is the row's class; its productClassWeight is 4, 3, 2, 1 for
\* class A, B, C, LE and 0 for any other class, the blank one included; its
\* sizeClassWeight is 3 for size class A and 1 for B; and its totalWeight is
\* their product, one of 0, 1, 2, 3, 4, 6, 9, 12: 12 for class A with size
\* class A, 1 for LE with size class B, 0 for an unknown class.
C15_TotalWeight ==
  \A row \in EmittedRows :
    /\ \E k \in SourcesOf(row) :
         row.class = ToUpperCase(Trim(OrEmpty(CellAt(summary[k], 3))))
    /\ row.product_class_weight =
         ( CASE row.class = <<"A">> -> 4
             [] row.class = <<"B">> -> 3
             [] row.class = <<"C">> -> 2
             [] row.class = <<"L", "E">> -> 1
             [] OTHER -> 0 )
    /\ row.size_class \in { "A", "B" }
    /\ row.size_class_weight = (IF row.size_class = "A" THEN 3 ELSE 1)
    /\ row.total_weight = row.product_class_weight * row.size_class_weight
    /\ row.total_weight \in { 0, 1, 2, 3, 4, 6, 9, 12 }
    /\ (row.class = <<"A">> /\ row.size_class = "A") => row.total_weight = 12
    /\ (row.class = <<"L", "E">> /\ row.size_class = "B") => row.total_weight = 1
    /\ row.class \notin { <<"A">>, <<"B">>, <<"C">>, <<"L", "E">> } =>
         row.total_weight = 0

C15_Witness ==
  \E i \in DOMAIN sheet :
    /\ summary[2][4] = <<"l", "e">>
    /\ sheet[i].class = <<"L", "E">>
    /\ sheet[i].size_class = "B"
    /\ sheet[i].total_weight = 1

\* The six core sizes, as the claim lists them.
CoreSizes ==
  { <<"Y","T","H","-","M","D">>, <<"Y","T","H","-","L","G">>,
    <<"Y","T","H","-","X","L">>, <<"S","R","-","S","M">>,
    <<"S","R","-","M","D">>, <<"S","R","-","L","G">> }

\* C16: whatever the size cell of its data row, a reference row that
\* resolves gets a row, and the row's size class is A exactly when the cell,
\* trimmed and upper-cased, is one of YTH-MD, YTH-LG, YTH-XL, SR-SM, SR-MD,
\* SR-LG, and B otherwise, the empty size included: SR-MD gives A, XL gives B.
C16_SizeClass ==
  /\ \A row \in EmittedRows :
       /\ row.size_class \in { "A", "B" }
       /\ \E k \in SourcesOf(row) :
            LET cell == OrEmpty(CellAt(summary[k], 2)) IN
            /\ row.size = Trim(cell)
            /\ row.size_class = "A" <=> ToUpperCase(Trim(cell)) \in CoreSizes
       /\ ToUpperCase(row.size) = <<"S","R","-","M","D">> => row.size_class = "A"
       /\ row.size \in { <<"X","L">>, <<>> } => row.size_class = "B"
  /\ \A r \in Runs :
       (Status(r) = "ok" /\ AllCallsOk(r)) =>
         Len(run[r].snapshotRows) = Cardinality(SkuRows)

C16_Witness ==
  \E i \in DOMAIN sheet :
    /\ summary[2][3] = <<"s","r","-","m","d">>
    /\ sheet[i].size = <<"s","r","-","m","d">>
    /\ sheet[i].size_class = "A"

\* The columns of a table whose header cell normalises to a name.
ColumnsNamed(all, name) ==
  { c \in DOMAIN all[1] : normalizeHeader(all[1][c]) = name }

\* The cell the claim's resolution order gives for a field of table row k:
\* the column of the first of the field's names that the header holds, else
\* the fallback index, and absent when the row has no such cell.
ClaimedCell(all, k, names, fallbackIndex) ==
  LET held == { n \in DOMAIN names : ColumnsNamed(all, names[n]) # {} } IN
  IF held # {}
  THEN LET n == CHOOSE x \in held : \A y \in held : x <= y
           c == CHOOSE x \in ColumnsNamed(all, names[n]) :
                  \A y \in ColumnsNamed(all, names[n]) : y <= x
       IN IF c \in DOMAIN all[k] THEN all[k][c] ELSE UndefinedCell
  ELSE IF fallbackIndex + 1 \in DOMAIN all[k]
       THEN all[k][fallbackIndex + 1]
       ELSE UndefinedCell

\* The five fields of table row k, by the claim's resolution order and the
\* fallback indexes 17, 3, 4, 12, 14.
ClaimedFields(all, k) ==
  [ sku |-> Trim(OrEmpty(ClaimedCell(all, k, <<KeySku>>, 17))),
    colorway |-> Trim(OrEmpty(ClaimedCell(all, k, <<KeyColorway>>, 3))),
    size |-> Trim(OrEmpty(ClaimedCell(all, k, <<KeySize>>, 4))),
    class |-> ToUpperCase(Trim(OrEmpty(ClaimedCell(all, k, <<KeyClass>>, 12)))),
    safety_stock |->
      ParseSafetyStock(ClaimedCell(all, k, <<KeySafetyStock, KeySafety>>, 14)) ]

\* The same, worked out once for every reference table of the model.
ClaimedTable ==
  [all \in Summaries \cup OverlapSummaries \cup RefSummaries \cup CapTables |->
     [k \in 2..Len(all) |-> ClaimedFields(all, k)]]

\* The fields of row k of the reference table.
Claimed(k) == ClaimedTable[summary][k]

\* Emitted row `row` carries the SKU, colorway, size, class and safety stock
\* of a table row, given by its fields.
CarriesRow(row, fields) ==
  /\ row.sku = fields.sku
  /\ row.colorway = fields.colorway
  /\ row.size = fields.size
  /\ row.class = fields.class
  /\ row.safety_stock = fields.safety_stock

\* C17: every emitted row comes from a data row of the reference table and
\* carries, for sku, colorway, size, class and safety stock, the value of
\* the cell the resolution order gives: the column of the first recognised
\* name the normalised header holds (safety_stock before safety), and only
\* when it holds none the fallback index (17, 3, 4, 12, 14), the value being
\* absent (blank, or 0) when the row has no such cell. Columns inserted,
\* removed or reordered never fail the run: if no call fails it ends ok (or
\* skipped) having looked up every data row that has a SKU so resolved.
C17_ResolutionOrder ==
  LET claimed == ClaimedTable[summary] IN
  /\ \A row \in EmittedRows :
       \E k \in DOMAIN claimed : CarriesRow(row, claimed[k])
  /\ \A r \in Runs :
       (Done(r) /\ AllCallsOk(r) /\ Len(summary) >= 2) =>
         /\ Status(r) \in { "ok", "skipped" }
         /\ Status(r) = "ok" =>
              Cardinality(CallsOf(r, "variant_lookup")) =
                Cardinality({ k \in DOMAIN claimed : claimed[k].sku # <<>> })

C17_Witness ==
  \E i \in DOMAIN sheet :
    /\ summary = TableBothSafety
    /\ sheet[i].sku = ABC
    /\ sheet[i].safety_stock = 20
    /\ sheet[i].colorway = Red
    /\ sheet[i].size = <<"S","R","-","M","D">>
    /\ sheet[i].class = <<>>
    /\ sheet[i].total_weight = 0

\* The table rows whose SKU is not empty and resolves on the platform to a
\* variant with both ids.
ResolvedRows ==
  LET claimed == ClaimedTable[summary] IN
  { k \in DOMAIN claimed :
      /\ claimed[k].sku # <<>>
      /\ VariantOfResponse(shop, claimed[k].sku).found }

\* The m-th smallest member of a set of numbers.
NthOf(S, m) == CHOOSE k \in S : Cardinality({ j \in S : j < k }) = m - 1

C19_SafetyStockNonNegative ==
  /\ \A row \in EmittedRows :
       /\ row.safety_stock >= 0
       /\ \E k \in SourcesOf(row) :
            LET cell == CellAt(summary[k], 4) IN
            (cell = UndefinedCell \/ cell = <<>> \/ NumberOf(cell).nan)
              => row.safety_stock = 0
  /\ \A r \in Runs :
       (Status(r) = "ok" /\ AllCallsOk(r)) =>
         Len(run[r].snapshotRows) = Cardinality(SkuRows)

\* The positions of run r's recoverable failures among its calls, in the
\* order they occurred.
RecoverableCalls(r) == { k \in DOMAIN run[r].ops : Recoverable(r, k) }

\* C20: the response of every run that ends ok reports in errorsCount the
\* number n of recoverable errors of the run, uncapped, and lists in errors
\* the first min(25, n) of them, in the order they occurred: at most 25
\* entries.
C20_ErrorListCapped ==
  \A r \in Runs :
    Status(r) = "ok" =>
      LET n == Cardinality(RecoverableCalls(r)) IN
      /\ run[r].resp.errorsCount = n
      /\ Len(run[r].resp.errors) = (IF n < 25 THEN n ELSE 25)
      /\ Len(run[r].resp.errors) <= 25
      /\ \A e \in DOMAIN run[r].resp.errors :
           /\ run[r].resp.errors[e].sku =
                run[r].ops[NthOf(RecoverableCalls(r), e)].arg
           /\ run[r].resp.errors[e].stage = "variant_lookup"

C20_Witness ==
  \E r \in Runs :
    /\ Status(r) = "ok"
    /\ run[r].resp.errorsCount = 26
    /\ Len(run[r].resp.errors) = 25
    /\ run[r].resp.errors[25].sku = MissingSku(25)
    /\ run[r].resp.rowsInserted = 1

\* Run r got past the security check of line 500.
AuthorizedRun(r) ==
  /\ run[r].pc # "idle"
  /\ Authorized(run[r].secret, env["CRON_SECRET"])

\* Run r's last call, of the given kind, failed.
LastCallFailed(r, kinds) ==
  /\ run[r].ops # <<>>
  /\ run[r].ops[Len(run[r].ops)].op \in kinds
  /\ run[r].ops[Len(run[r].ops)].res = "failed"

\* Run r's reference read returned fewer than two rows.
ReferenceEmpty(r) ==
  /\ run[r].ops # <<>>
  /\ run[r].ops[Len(run[r].ops)].op = "reference_read"
  /\ run[r].ops[Len(run[r].ops)].res = "ok"
  /\ Len(summary) < 2

\* The outcome of an authorized run that has ended is ok, skipped or error;
\* the rows of the sheet are those of runs that ended ok; and no run ends in
\* error after a failed inventory lookup or a SKU without a variant alone.
OutcomeOfRun(r) ==
  /\ Done(r) => Status(r) \in { "ok", "skipped", "error" }
  /\ Appended(r) => Status(r) = "ok" /\ run[r].resp.http = 200
  /\ Status(r) # "ok" => \A k \in DOMAIN sheet : sheet[k].run_id # run[r].runId
                          \/ \E q \in Runs : q # r /\ Appended(q)
                                               /\ run[q].runId = run[r].runId
  /\ Status(r) = "error" => ~LastCallFailed(r, { "inventory_lookup" })

HardFailureCause(r) ==
  \/ SettingMissing /\ run[r].ops = <<>>
  \/ ReferenceEmpty(r)
  \/ LastCallFailed(r, { "variant_lookup" })
  \/ LastCallFailed(r, { "guard_read", "reference_read", "append" })

C22_GetIsRejected ==
  \A r \in Runs :
    run[r].method = "GET" =>
      /\ Done(r)
      /\ run[r].resp.http = 405
      /\ run[r].resp.error = "Method not allowed"
      /\ run[r].ops = <<>>
      /\ run[r].snapshotRows = <<>>
      /\ \A k \in DOMAIN sheet : sheet[k].run_id # run[r].runId

\* Run r's guard read returned column A without r's snapshot date: r passed
\* the guard.
PassedGuard(r) ==
  /\ run[r].ops # <<>>
  /\ run[r].ops[1].op = "guard_read"
  /\ run[r].ops[1].res = "ok"
  /\ ~GuardHit(run[r].dateCol, run[r].snapshotDate)

\* Runs r1 and r2 of one calendar day both read the guard column before
\* either appended.
Raced(r1, r2) ==
  /\ r1 # r2
  /\ SameDay(r1, r2)
  /\ PassedGuard(r1)
  /\ PassedGuard(r2)

\* The rows of the sheet that carry a snapshot date.
RowsOfDate(d) == { k \in DOMAIN sheet : sheet[k].snapshot_date_et = d }

\* Once past the guard a run goes its way whatever the sheet comes to hold:
\* it reads the guard column once, is never skipped, and with rows to write
\* and no failed call it ends ok with its rows appended.
GuardEvaluatedOnce(r) ==
  /\ Cardinality(CallsOf(r, "guard_read")) = 1
  /\ Status(r) # "skipped"
  /\ (Done(r) /\ AllCallsOk(r)) =>
       /\ Status(r) = "ok"
       /\ run[r].snapshotRows # <<>> => Appended(r)

\* C23 as stated: two authorized runs of one calendar day that both read the
\* guard column before either appends both pass the guard and both append,
\* the guard being evaluated once and nothing held between check and append,
\* and their rows carry two different run ids for the one snapshot date.
\* (Refuted by two runs that start in the same instant of the clock: their
\* run ids are equal.)
C23_RaceLeavesTwoRunIds ==
  \A r1, r2 \in Runs :
    Raced(r1, r2) =>
      /\ GuardEvaluatedOnce(r1)
      /\ GuardEvaluatedOnce(r2)
      /\ (Appended(r1) /\ Appended(r2)) =>
           \E i, j \in RowsOfDate(run[r1].snapshotDate) :
             sheet[i].run_id # sheet[j].run_id

\* C23, amended: two authorized runs of one calendar day that both read the
\* guard column before either appends both pass the guard and both append
\* (each with rows to write and no failed call), the guard being evaluated
\* once and nothing held between check and append; the sheet then holds the
\* rows of both runs for the one snapshot date, with two different run ids
\* unless the two runs started in the same instant of the clock.
C23_RaceDoubleWrites ==
  \A r1, r2 \in Runs :
    Raced(r1, r2) =>
      /\ GuardEvaluatedOnce(r1)
      /\ GuardEvaluatedOnce(r2)
      /\ (Appended(r1) /\ Appended(r2)) =>
           /\ Cardinality(RowsOfDate(run[r1].snapshotDate))
                >= Len(run[r1].snapshotRows) + Len(run[r2].snapshotRows)
           /\ run[r1].snapshotTs # run[r2].snapshotTs =>
                \E i, j \in RowsOfDate(run[r1].snapshotDate) :
                  /\ sheet[i].run_id = run[r1].runId
                  /\ sheet[j].run_id = run[r2].runId
                  /\ sheet[i].run_id # sheet[j].run_id

C23_Witness ==
  \E r1, r2 \in Runs :
    /\ Raced(r1, r2)
    /\ Appended(r1) /\ Appended(r2)
    /\ Status(r1) = "ok" /\ Status(r2) = "ok"
    /\ \E i, j \in RowsOfDate(run[r1].snapshotDate) :
         sheet[i].run_id # sheet[j].run_id

\* The SKUs of the reference table that are not empty, in table order.
SkusInOrder == SelectSeq(SkuTable[summary], LAMBDA x : x # <<>>)

\* The SKUs run r has looked up, in the order of the lookups.
SkusLookedUp(r) ==
  LET calls == SelectSeq(run[r].ops, LAMBDA c : c.op = "variant_lookup")
  IN [k \in DOMAIN calls |-> calls[k].arg]

\* C24: within one run the authorization check precedes the configuration
\* check, which precedes the guard read, which precedes the reference read,
\* which precedes every lookup; calls are issued one at a time; the variant
\* lookups follow the reference table's order and every inventory lookup comes
\* straight after the successful variant lookup of its SKU; and the one append
\* comes after the lookups of every SKU, as the last call of the run.
C24_StagesInOrder ==
  LET skus == SkusInOrder IN
  \A r \in Runs :
    LET ops == run[r].ops IN
    /\ (run[r].pc # "idle" /\ Unauthentic(r)) => run[r].resp.http = 401
    /\ (run[r].pc # "idle" /\ ~Unauthentic(r) /\ SettingMissing) =>
         /\ run[r].resp.http = 500
         /\ ops = <<>>
    /\ ops # <<>> => ~Unauthentic(r) /\ ~SettingMissing
    /\ \A k \in DOMAIN ops :
         /\ k < Len(ops) => ops[k].res # "pending"
         /\ ops[k].op = "guard_read" <=> k = 1
         /\ ops[k].op = "reference_read" <=> k = 2
         /\ ops[k].op = "inventory_lookup" =>
              /\ ops[k - 1].op = "variant_lookup"
              /\ VariantOfResponse(shop, ops[k - 1].arg).found
              /\ ops[k].arg = <<VariantOfResponse(shop, ops[k - 1].arg).inventoryItemId>>
         /\ ops[k].op = "append" =>
              /\ k = Len(ops)
              /\ Len(SkusLookedUp(r)) = Len(skus)
    /\ Len(SkusLookedUp(r)) <= Len(skus)
    /\ SkusLookedUp(r) = SubSeq(skus, 1, Len(SkusLookedUp(r)))
    /\ Cardinality(CallsOf(r, "append")) <= 1

C24_Witness ==
  \E r \in Runs :
    /\ Status(r) = "ok"
    /\ Appended(r)
    /\ Len(run[r].ops) = 6
    /\ SkusLookedUp(r) = <<NOPE, ABC>>
    /\ run[r].ops[5].op = "inventory_lookup"

\* The levels the platform holds for an inventory item at a location.
LevelsAt(inventoryItemId, locationId) ==
  { k \in DOMAIN shop.levels :
      /\ shop.levels[k].inventory_item_id = inventoryItemId
      /\ StringOfId(shop.levels[k].location_id) = locationId }

\* C25: the available quantity of every emitted row is a number, and either
\* the numeric value the platform holds for the row's inventory item at the
\* configured location or 0; an item with no level, with levels of other
\* locations only or with a value that is not a number gets 0; and the row
\* is emitted all the same, with no error recorded. (Refuted by the handler
\* of part_001, which takes the first level of the response whatever its
\* location and whatever the type of its value.)
C25_AvailableAtLocationOrZero ==
  \A r \in Runs :
    /\ \A k \in DOMAIN run[r].snapshotRows :
         LET row == run[r].snapshotRows[k]
             at == LevelsAt(row.inventory_item_id, env["SHOPIFY_LOCATION_ID"])
         IN /\ row.available_qty.isNumber
            /\ \/ row.available_qty.val = 0
               \/ \E l \in at : shop.levels[l].available = row.available_qty
            /\ { l \in at : shop.levels[l].available.isNumber } = {}
                 => row.available_qty = Num(0)
    /\ Len(run[r].snapshotRows)
         >= Cardinality({ k \in CallsOf(r, "inventory_lookup") :
                            run[r].ops[k].res = "ok" })
    /\ \A k \in DOMAIN run[r].errors : run[r].errors[k].stage # "inventory_lookup"

\* The reference table has a data row whose SKU is empty after trimming.
HasBlankRow == \E k \in DOMAIN SkuTable[summary] : SkuTable[summary][k] = <<>>

\* What run r emits for a table made of the rows with a SKU alone, every
\* call returning successfully: for each such row in turn that has a variant,
\* the row built from its cells and the available quantity at the location.
RECURSIVE RowsFor(_, _, _)
RowsFor(r, rows, headerMap) ==
  IF rows = <<>> THEN <<>>
  ELSE LET f == RowFields(Head(rows), headerMap)
           v == VariantOfResponse(shop, f.sku)
           loc == env["SHOPIFY_LOCATION_ID"]
           rest == RowsFor(r, Tail(rows), headerMap)
       IN IF ~v.found THEN rest
          ELSE << SnapshotRow([run[r] EXCEPT !.variantInfo = v], f, loc,
                    fetchAvailableInventoryREST(shop, TRUE, v.inventoryItemId, loc)) >>
               \o rest

\* The rows of the reference table that have a SKU, in table order.
RowsWithSku ==
  LET skus == SkuTable[summary] IN
  SelectSeq([k \in DOMAIN skus |-> [k |-> k, sku |-> skus[k]]],
            LAMBDA x : x.sku # <<>>)

\* C26: a reference row whose SKU is empty after trimming is skipped: no
\* lookup is issued for it and no row or error entry carries an empty SKU;
\* and it changes nothing for the other rows: a run on a table with such rows
\* looks up the SKUs of the other rows in their order, and when all its calls
\* succeed it emits the rows that the table of the other rows alone gives.
C26_BlankSkuSkipped ==
  \A r \in Runs :
    /\ \A k \in CallsOf(r, "variant_lookup") : run[r].ops[k].arg # <<>>
    /\ \A k \in DOMAIN run[r].snapshotRows : run[r].snapshotRows[k].sku # <<>>
    /\ \A k \in DOMAIN run[r].errors : run[r].errors[k].sku # <<>>
    /\ HasBlankRow =>
         /\ SkusLookedUp(r) = [k \in 1..Len(SkusLookedUp(r)) |-> RowsWithSku[k].sku]
         /\ (Done(r) /\ Status(r) = "ok" /\ AllCallsOk(r)) =>
              /\ Len(SkusLookedUp(r)) = Len(RowsWithSku)
              /\ run[r].snapshotRows
                   = RowsFor(r, [k \in DOMAIN RowsWithSku |->
                                   DataRows(summary)[RowsWithSku[k].k]],
                             run[r].headerMap)

C26_Witness ==
  /\ HasBlankRow
  /\ \E r \in Runs :
       /\ Done(r) /\ Status(r) = "ok" /\ AllCallsOk(r)
       /\ Len(run[r].snapshotRows) = 1
       /\ Len(run[r].errors) = 1
       /\ SkusLookedUp(r) = <<NOPE, ABC>>

\* For each reference row with a SKU, in table order, whether the platform
\* has a variant for it.
FoundInOrder ==
  LET skus == SkusInOrder IN
  [k \in DOMAIN skus |-> VariantOfResponse(shop, skus[k]).found]

\* C27: in a run that ends ok, rowsInserted + errorsCount is the number of
\* reference data rows whose SKU is not empty after trimming, and every such
\* row is accounted for once: the rows that have a variant are the snapshot
\* rows, in order, and the others are the entries of the error list, in
\* order, so that no row is both and none is neither.
C27_RowsPlusErrors ==
  \A r \in Runs :
    Status(r) = "ok" =>
      LET skus == SkusInOrder
          found == FoundInOrder
          rowsUpTo == [k \in DOMAIN skus |->
                         Cardinality({ j \in 1..k : found[j] })]
      IN /\ run[r].resp.rowsInserted + run[r].resp.errorsCount = Len(skus)
         /\ Len(skus) = Cardinality(SkuRows)
         /\ run[r].resp.rowsInserted = Len(run[r].snapshotRows)
         /\ run[r].resp.errorsCount = Len(run[r].errors)
         /\ \A k \in DOMAIN skus :
              IF found[k]
              THEN /\ rowsUpTo[k] \in DOMAIN run[r].snapshotRows
                   /\ run[r].snapshotRows[rowsUpTo[k]].sku = skus[k]
              ELSE /\ k - rowsUpTo[k] \in DOMAIN run[r].errors
                   /\ run[r].errors[k - rowsUpTo[k]].sku = skus[k]

C27_Witness ==
  /\ \E k \in DOMAIN SkuTable[summary] : SkuTable[summary][k] = <<>>
  /\ \E r \in Runs :
       /\ Status(r) = "ok"
       /\ run[r].resp.rowsInserted = 1
       /\ run[r].resp.errorsCount = 1

\* Another run than r has appended rows of r's snapshot date.
WrittenByAnother(r) ==
  \E q \in Runs : q # r /\ Appended(q) /\ SameDay(q, r)

\* C28: only written rows arm the guard. After a run has ended ok, its
\* snapshot date is in column A of the snapshot sheet if and only if it
\* inserted a row or another run wrote rows of that date; a run that ends ok
\* with zero rows has issued no append and written no row, and a run is
\* skipped only when some run has appended rows of its date, never because
\* of a run that ended ok with zero rows.
C28_GuardArmedByRows ==
  \A r \in Runs :
    /\ Status(r) = "ok" =>
         /\ run[r].resp.rowsInserted >= 1 <=> Appended(r)
         /\ GuardHit(DateColumn(sheet), run[r].snapshotDate)
              <=> (run[r].resp.rowsInserted >= 1 \/ WrittenByAnother(r))
         /\ run[r].resp.rowsInserted = 0 =>
              /\ CallsOf(r, "append") = {}
              /\ run[r].snapshotRows = <<>>
              /\ Len(sheet) = RowsOfRuns({ q \in Runs \ {r} : Appended(q) })
    /\ Status(r) = "skipped" => WrittenByAnother(r)

C28_Witness ==
  \E r1, r2 \in Runs :
    /\ r1 < r2
    /\ SameDay(r1, r2)
    /\ Status(r1) = "ok" /\ run[r1].resp.rowsInserted = 0
    /\ run[r1].resp.errorsCount = 1
    /\ Status(r2) = "ok" /\ run[r2].resp.rowsInserted = 0
    /\ run[r2].dateCol = <<>>
    /\ sheet = <<>>

\* Run r has read the clock: it got past the security check and the settings.
Started(r) == run[r].snapshotDate # -1

\* The row carries the date, the timestamp and the run id of run r.
StampedBy(row, r) ==
  /\ row.snapshot_date_et = run[r].snapshotDate
  /\ row.snapshot_ts_et = run[r].snapshotTs
  /\ row.run_id = run[r].runId

\* The date, timestamp and run id of run r are those of one instant, not
\* later than the present.
StampOfOneInstant(r) ==
  LET t == run[r].snapshotTs[2] IN
  /\ t \in 0..now
  /\ run[r].snapshotDate = getETDate(t)
  /\ run[r].snapshotTs = getETTimestamp(t)
  /\ run[r].runId = MakeRunId(run[r].snapshotDate, t)

\* The rows run r has built are, in order, rows of the snapshot sheet.
RowsInSheet(r) ==
  \E first \in 0..Len(sheet) :
    /\ first + Len(run[r].snapshotRows) <= Len(sheet)
    /\ \A k \in DOMAIN run[r].snapshotRows :
         sheet[first + k] = run[r].snapshotRows[k]

\* C29: every row a run builds and appends carries the snapshot date, the
\* timestamp and the run id the run took from the clock at its start, before
\* the guard read; the date is the one the guard compared with column A; and
\* none of the three changes while the run is in progress, whatever the clock
\* does meanwhile (midnight included).
C29_RowsStampedAtStart ==
  /\ [](\A r \in Runs :
          Started(r) =>
            /\ StampOfOneInstant(r)
            /\ \A k \in DOMAIN run[r].snapshotRows :
                 StampedBy(run[r].snapshotRows[k], r)
            /\ Appended(r) => RowsInSheet(r)
            /\ Status(r) = "skipped" =>
                 GuardHit(run[r].dateCol, run[r].snapshotDate)
            /\ run[r].snapshotRows # <<>> =>
                 /\ PassedGuard(r)
                 /\ \A k \in DOMAIN run[r].dateCol :
                      run[r].dateCol[k] # run[r].snapshotRows[1].snapshot_date_et)
  /\ [][\A r \in Runs :
          /\ Started(r) =>
               /\ run'[r].snapshotDate = run[r].snapshotDate
               /\ run'[r].snapshotTs = run[r].snapshotTs
               /\ run'[r].runId = run[r].runId
          /\ ~Started(r) /\ Started(r)' =>
               /\ run'[r].pc = "guard"
               /\ run'[r].snapshotRows = <<>>]_vars

\* Midnight has passed while the run is at its second SKU, with one row
\* built before.
C29_Witness ==
  \E r \in Runs :
    /\ run[r].pc = "inventory"
    /\ Len(run[r].snapshotRows) = 1
    /\ run[r].snapshotDate = 0
    /\ getETDate(now) = 1
    /\ StampedBy(run[r].snapshotRows[1], r)

\* The data on the page are those built for range v.
BuiltFor(v) ==
  /\ page.summary # NoPayload
  /\ page.summary[1].kpis = mockSummary(v, now).kpis
  /\ page.invIndex = Payload(mockInventoryIndex(v))
  /\ page.trends = Payload(mockTrends(v))
  /\ page.marketing = Payload(mockMarketing(v))

\* The timer of the effect that ran last.
LastTimer == Len(page.timers)

\* A load of an earlier range than the selected one has set state.
StaleLoadShown ==
  /\ ~page.loading
  /\ ~BuiltFor(page.range)

\* C30: on the dashboard page a change of range cancels the pending timer,
\* so that no timer but that of the last effect is pending and only that one
\* ever fires and sets state; whenever loading is false the summary, index,
\* trends and marketing data are those built for the selected range; and
\* unless the range is changed again and again, loading becomes false and
\* stays so.
C30_NoStaleLoad ==
  /\ [](page.mounted =>
          /\ page.timers # <<>>
          /\ page.timers[LastTimer].range = page.range
          /\ \A k \in DOMAIN page.timers :
               k < LastTimer => /\ page.timers[k].st # "pending"
                                /\ page.timers[k].cancelled
          /\ page.loading <=> page.timers[LastTimer].st = "pending"
          /\ ~StaleLoadShown)
  /\ [][\A k \in DOMAIN page.timers :
          page.timers[k].st = "pending" /\ page'.timers[k].st = "fired" =>
            /\ k = LastTimer
            /\ ~page.timers[k].cancelled
            /\ page.loading /\ ~page'.loading
            /\ page'.range = page.timers[k].range]_vars
  /\ [][page.loading /\ ~page'.loading => BuiltFor(page.range)']_vars
  /\ \/ []<><<\E v \in DateRangeKeys : SelectRange(v)>>_vars
     \/ <>[](~page.loading)

\* The range was changed while a load was pending, its timer was cleared
\* without firing, and the load of the new range has been shown.
C30_Witness ==
  /\ page.mounted
  /\ Len(page.timers) >= 2
  /\ page.timers[1].st = "cleared"
  /\ page.timers[1].range # page.range
  /\ page.timers[LastTimer].st = "fired"
  /\ ~page.loading
  /\ BuiltFor(page.range)

====
